--------------------------- MODULE StatusLedProofs ---------------------------
(***************************************************************************)
(* Proofs about StatusLed.  About its timer, for every period, latency,    *)
(* step and width of the clock: an alarm is never set in the past, and the *)
(* periods stay on the grid of the first one.  About its LED, for every    *)
(* colour, duration and brightness: what the thread has before it says     *)
(* what the LED shows, between any two of its steps and with the interrupt *)
(* anywhere between them; and how long an effect takes.                    *)
(***************************************************************************)
EXTENDS StatusLed, TLAPS, SequenceTheorems

-----------------------------------------------------------------------------
(* Remainders.                                                             *)
Positive       == Nat \ {0}
Multiple(x, d) == \E k \in Int : x = k * d

LEMMA Remainder ==
  ASSUME NEW w \in Positive, NEW x \in Int
  PROVE  /\ x % w \in 0..w - 1
         /\ Multiple(x - (x % w), w)
<1>1. x % w \in Int /\ 0 <= x % w /\ x % w < w
  BY DEF Positive
<1>2. x = (x \div w) * w + (x % w) /\ x \div w \in Int
  BY DEF Positive
<1>3. x - (x % w) = (x \div w) * w
  BY <1>1, <1>2 DEF Positive
<1>4. Multiple(x - (x % w), w)
  BY <1>2, <1>3 DEF Multiple
<1>5. x % w \in 0..w - 1
  BY <1>1 DEF Positive
<1> QED
  BY <1>4, <1>5

LEMMA SmallMultipleIsZero ==
  ASSUME NEW w \in Positive, NEW x \in Int, Multiple(x, w), -w < x, x < w
  PROVE  x = 0
<1>1. PICK k \in Int : x = k * w
  BY DEF Multiple
<1>2. CASE k >= 1
  <2>1. k * w >= w
    BY <1>2 DEF Positive
  <2> QED
    BY <1>1, <2>1 DEF Positive
<1>3. CASE k <= -1
  <2>1. k * w <= -w
    BY <1>3 DEF Positive
  <2> QED
    BY <1>1, <2>1 DEF Positive
<1>4. CASE k = 0
  BY <1>1, <1>4 DEF Positive
<1> QED
  BY <1>2, <1>3, <1>4

LEMMA SumOfMultiples ==
  ASSUME NEW d \in Int, NEW x \in Int, NEW y \in Int, Multiple(x, d), Multiple(y, d)
  PROVE  Multiple(x + y, d) /\ Multiple(x - y, d) /\ Multiple(-x, d)
<1>1. PICK j \in Int : x = j * d
  BY DEF Multiple
<1>2. PICK k \in Int : y = k * d
  BY DEF Multiple
<1>3. x + y = (j + k) * d /\ x - y = (j - k) * d /\ -x = (-j) * d
  BY <1>1, <1>2
<1>4. j + k \in Int /\ j - k \in Int /\ -j \in Int
  OBVIOUS
<1> QED
  BY <1>3, <1>4 DEF Multiple

LEMMA MultipleOfMultiple ==
  ASSUME NEW c \in Int, NEW d \in Int, NEW x \in Int, Multiple(d, c), Multiple(x, d)
  PROVE  Multiple(x, c)
<1>1. PICK j \in Int : d = j * c
  BY DEF Multiple
<1>2. PICK k \in Int : x = k * d
  BY DEF Multiple
<1>3. x = (k * j) * c /\ k * j \in Int
  BY <1>1, <1>2
<1> QED
  BY <1>3 DEF Multiple

\* The remainder of x is the number below w that differs from x by a multiple.
LEMMA RemainderIs ==
  ASSUME NEW w \in Positive, NEW x \in Int, NEW r \in 0..w - 1, Multiple(x - r, w)
  PROVE  x % w = r
<1>1. x % w \in 0..w - 1 /\ Multiple(x - (x % w), w)
  BY Remainder
<1>2. Multiple((x - r) - (x - (x % w)), w)
  BY <1>1, SumOfMultiples DEF Positive
<1>3. (x - r) - (x - (x % w)) = (x % w) - r
  BY <1>1 DEF Positive
<1>4. (x % w) - r = 0
  BY <1>1, <1>2, <1>3, SmallMultipleIsZero DEF Positive
<1> QED
  BY <1>1, <1>4 DEF Positive

LEMMA DividesIsMultiple ==
  ASSUME NEW w \in Positive, NEW x \in Int
  PROVE  x % w = 0 <=> Multiple(x, w)
<1>1. x % w = 0 => Multiple(x, w)
  <2> SUFFICES ASSUME x % w = 0 PROVE Multiple(x, w)
    OBVIOUS
  <2>1. Multiple(x - (x % w), w)
    BY Remainder
  <2>2. x - (x % w) = x
    OBVIOUS
  <2> QED
    BY <2>1, <2>2
<1>2. Multiple(x, w) => x % w = 0
  BY RemainderIs DEF Positive
<1> QED
  BY <1>1, <1>2

-----------------------------------------------------------------------------
(* The clock.                                                              *)

\* What StatusLedAssumption says, in terms of multiples.
LEMMA Constants ==
  /\ Period \in Positive /\ ClockStep \in Positive /\ ClockWrap \in Positive
  /\ MaxLatency \in Nat /\ MaxLatency < Period /\ Period < ClockWrap
  /\ Multiple(ClockWrap, Period) /\ Multiple(Period, ClockStep)
  /\ Multiple(ClockWrap, ClockStep)
<1>1. /\ UpdatePeriod_ms \in Nat \ {0} /\ ClockStep \in Nat \ {0} /\ MaxLatency \in Nat
      /\ MaxLatency < Period /\ Period < ClockWrap
      /\ ClockWrap % Period = 0 /\ Period % ClockStep = 0
  BY StatusLedAssumption
<1>2. Period \in Positive
  BY <1>1 DEF Period, Positive
<1>3. ClockWrap \in Positive /\ ClockStep \in Positive
  BY <1>1, ClockWrapAssumption DEF Positive
<1>4. ClockWrap \in Int /\ Period \in Int /\ ClockStep \in Int
  BY <1>2, <1>3 DEF Positive
<1>5. Multiple(ClockWrap, Period) /\ Multiple(Period, ClockStep)
  BY <1>1, <1>2, <1>3, <1>4, DividesIsMultiple
<1>6. Multiple(ClockWrap, ClockStep)
  BY <1>4, <1>5, MultipleOfMultiple
<1> QED
  BY <1>1, <1>2, <1>3, <1>5, <1>6

LEMMA ClockIsInt == Clock \subseteq Int /\ ClockWrap \in Int
BY Constants DEF Clock, Positive

\* A later time is on the clock, a whole number of wraps from the sum.
LEMMA AfterIsOnClock ==
  ASSUME NEW time \in Clock, NEW delay \in Nat
  PROVE  /\ After(time, delay) \in Clock
         /\ Multiple(time + delay - After(time, delay), ClockWrap)
<1>1. time + delay \in Int
  BY Constants DEF Clock, Positive
<1> QED
  BY <1>1, Constants, Remainder DEF After, Clock

\* Wraps do not disturb a grid they are a multiple of.
LEMMA AfterKeepsGrid ==
  ASSUME NEW grid \in Int, Multiple(ClockWrap, grid),
         NEW time \in Clock, NEW delay \in Nat, Multiple(delay, grid),
         NEW from \in Clock, Multiple(time - from, grid)
  PROVE  Multiple(After(time, delay) - from, grid)
<1> DEFINE later == After(time, delay)
<1>1. later \in Clock /\ Multiple(time + delay - later, ClockWrap)
  BY AfterIsOnClock
<1> HIDE DEF later
<1>2. time \in Int /\ delay \in Int /\ from \in Int /\ later \in Int /\ ClockWrap \in Int
  BY <1>1, ClockIsInt
<1>3. Multiple(time + delay - later, grid)
  BY <1>1, <1>2, MultipleOfMultiple
<1>4. Multiple((time - from) + delay, grid)
  BY <1>2, SumOfMultiples
<1>5. Multiple(((time - from) + delay) - (time + delay - later), grid)
  BY <1>2, <1>3, <1>4, SumOfMultiples
<1>6. ((time - from) + delay) - (time + delay - later) = later - from
  BY <1>2
<1> QED
  BY <1>5, <1>6 DEF later

\* The distance of two times is the number below the wrap that differs from
\* their difference by whole wraps.
LEMMA DistanceIs ==
  ASSUME NEW a \in Clock, NEW b \in Clock, NEW d \in 0..ClockWrap - 1,
         Multiple(a - b - d, ClockWrap)
  PROVE  (a - b) % ClockWrap = d
<1>1. a - b \in Int
  BY ClockIsInt
<1> QED
  BY <1>1, Constants, RemainderIs

LEMMA DistanceOf ==
  ASSUME NEW a \in Clock, NEW b \in Clock
  PROVE  /\ (a - b) % ClockWrap \in 0..ClockWrap - 1
         /\ Multiple(a - b - ((a - b) % ClockWrap), ClockWrap)
<1>1. a - b \in Int
  BY ClockIsInt
<1> QED
  BY <1>1, Constants, Remainder

-----------------------------------------------------------------------------
(* The timer's invariant.                                                  *)
timerVars == <<clock, timer, first_start>>

TimerType ==
  /\ clock \in Clock /\ first_start \in Clock
  /\ timer \in [period : {0, Period}, start : Clock, alarm : Clock,
                armed : BOOLEAN, raised : BOOLEAN]

\* Every time the timer and the clock show is a step of the clock.
OnSteps ==
  /\ Multiple(clock, ClockStep) /\ Multiple(timer.start, ClockStep)
  /\ Multiple(timer.alarm, ClockStep)

\* The alarm of a timer in use is one period after its start, ahead of the
\* clock while it is armed and behind it by the latency at most once raised.
AlarmInTime ==
  /\ timer.armed \/ timer.raised =>
       timer.period = Period /\ timer.alarm = After(timer.start, Period)
  /\ timer.armed  => (timer.alarm - clock) % ClockWrap \in 1..Period
  /\ timer.raised => (clock - timer.alarm) % ClockWrap \in 0..MaxLatency

OnGrid == timer.period = Period => Multiple(timer.start - first_start, Period)

TimerInv == TimerType /\ OnSteps /\ AlarmInTime /\ OnGrid

\* Every step leaves the timer alone, starts it, moves the clock or is the
\* interrupt's.
LEMMA TimerSteps ==
  ASSUME [Next]_vars
  PROVE  UNCHANGED timerVars \/ StartTimer \/ Tick \/ periodicLedUpdateTimerISR
<1>1. CASE UNCHANGED vars
  BY <1>1 DEF vars, timerVars
<1>2. CASE Boot
  BY <1>2 DEF Boot, InitLed, TurnOn, ConnectPrint, SetReaction, ConnectHandler, EnterMainLoop,
              swVars, timerVars
<1>3. CASE WriteLevel \/ WriteCurrentColor \/ StoreField \/ WriteBrightness
  BY <1>3 DEF WriteLevel, WriteCurrentColor, StoreField, WriteBrightness, timerVars
<1>4. CASE PrintMessage \/ Flush \/ Halt
  BY <1>4 DEF PrintMessage, Flush, Halt, timerVars
<1>5. CASE Calls
  BY <1>5 DEF Calls, SetConstantBaseColor, FlashOverrideColor, StartOverrideColorBlinking,
              StopOverrideColorBlinking, SetBrightness, Call, timerVars
<1>6. CASE AssertionFails \/ DebugDrained
  BY <1>6 DEF AssertionFails, DebugDrained, timerVars
<1> QED
  BY <1>1, <1>2, <1>3, <1>4, <1>5, <1>6 DEF Next, Thread

LEMMA TimerInvInitially == Init => TimerInv
<1> SUFFICES ASSUME Init PROVE TimerInv
  OBVIOUS
<1>1. clock = 0 /\ first_start = 0
  BY DEF Init
<1>2. timer = [period |-> 0, start |-> 0, alarm |-> 0, armed |-> FALSE, raised |-> FALSE]
  BY DEF Init, Timer
<1>3. 0 \in Clock /\ Period # 0
  BY Constants DEF Clock, Positive
<1>4. \A d \in Int : Multiple(0, d)
  BY DEF Multiple
<1>5. Multiple(0, ClockStep)
  BY <1>4, Constants DEF Positive
<1> QED
  BY <1>1, <1>2, <1>3, <1>5 DEF TimerInv, TimerType, OnSteps, AlarmInTime, OnGrid

\* Setting the alarm of a timer that runs from a time on the grid, which lies
\* less than a period back: what starting and restarting have in common.
LEMMA SettingAlarm ==
  ASSUME TimerType, OnSteps, NEW start \in Clock, Multiple(start, ClockStep),
         NEW late \in 0..MaxLatency, Multiple(clock - start - late, ClockWrap),
         NEW before \in [period : {Period}, start : Clock, alarm : Clock,
                         armed : BOOLEAN, raised : BOOLEAN],
         NEW after, after = SetAlarm(before, start)
  PROVE  /\ after \in [period : {0, Period}, start : Clock, alarm : Clock,
                       armed : BOOLEAN, raised : BOOLEAN]
         /\ after.period = Period /\ after.start = start /\ after.armed /\ ~after.raised
         /\ after.alarm = After(start, Period)
         /\ Multiple(after.alarm, ClockStep)
         /\ (after.alarm - clock) % ClockWrap \in 1..Period
<1> DEFINE alarm == After(start, Period)
<1>1. Period \in Nat /\ Period \in Int /\ ClockStep \in Int /\ ClockWrap \in Int /\ clock \in Clock
  BY Constants, ClockIsInt DEF Positive, TimerType
<1>2. alarm \in Clock /\ Multiple(start + Period - alarm, ClockWrap)
  BY <1>1, AfterIsOnClock
<1>3. /\ after.period = Period /\ after.start = start /\ after.armed = TRUE
      /\ after.raised = FALSE /\ after.alarm = alarm
      /\ after \in [period : {0, Period}, start : Clock, alarm : Clock,
                    armed : BOOLEAN, raised : BOOLEAN]
  BY <1>2 DEF SetAlarm
<1>4. Multiple(alarm, ClockStep)
  <2>1. 0 \in Clock /\ start \in Int /\ alarm \in Int
    BY <1>2, Constants, ClockIsInt DEF Clock, Positive
  <2>2. Multiple(start - 0, ClockStep)
    BY <2>1
  <2>3. Multiple(alarm - 0, ClockStep)
    BY <1>1, <2>1, <2>2, Constants, AfterKeepsGrid
  <2> QED
    BY <2>1, <2>3
<1>5. (alarm - clock) % ClockWrap = Period - late
  <2> HIDE DEF alarm
  <2>1. start \in Int /\ alarm \in Int /\ clock \in Int /\ late \in Int
    BY <1>1, <1>2, ClockIsInt, Constants
  <2>2. Period - late \in 0..ClockWrap - 1
    BY Constants DEF Positive
  <2>3. Multiple(-((start + Period - alarm) + (clock - start - late)), ClockWrap)
    BY <1>1, <1>2, <2>1, SumOfMultiples
  <2>4. -((start + Period - alarm) + (clock - start - late)) = alarm - clock - (Period - late)
    BY <1>1, <2>1
  <2> QED
    BY <1>1, <1>2, <2>2, <2>3, <2>4, DistanceIs
<1>6. Period - late \in 1..Period
  BY Constants DEF Positive
<1> QED
  BY <1>3, <1>4, <1>5, <1>6

LEMMA StartKeepsTimerInv == TimerInv /\ StartTimer => TimerInv'
<1> SUFFICES ASSUME TimerInv, StartTimer PROVE TimerInv'
  OBVIOUS
<1> DEFINE before == [timer EXCEPT !.period = Period]
<1>1. timer' = SetAlarm(before, clock) /\ first_start' = clock /\ clock' = clock
  BY DEF StartTimer, startTimer, configureInMilliseconds, configureInMicroseconds, Period
<1>2. /\ clock \in Clock /\ Multiple(clock, ClockStep)
      /\ before \in [period : {Period}, start : Clock, alarm : Clock,
                     armed : BOOLEAN, raised : BOOLEAN]
  BY DEF TimerInv, TimerType, OnSteps
<1>3. \A d \in Int : Multiple(0, d)
  BY DEF Multiple
<1>4. clock - clock - 0 = 0 /\ clock - clock = 0 /\ 0 \in 0..MaxLatency
  BY <1>2, ClockIsInt, Constants
<1>5. Multiple(clock - clock - 0, ClockWrap) /\ Multiple(clock - clock, Period)
  BY <1>3, <1>4, Constants DEF Positive
<1> HIDE DEF before
<1>6. /\ timer' \in [period : {0, Period}, start : Clock, alarm : Clock,
                     armed : BOOLEAN, raised : BOOLEAN]
      /\ timer'.period = Period /\ timer'.start = clock /\ timer'.armed /\ ~timer'.raised
      /\ timer'.alarm = After(clock, Period)
      /\ Multiple(timer'.alarm, ClockStep)
      /\ (timer'.alarm - clock) % ClockWrap \in 1..Period
  BY <1>1, <1>2, <1>4, <1>5, SettingAlarm DEF TimerInv
<1> QED
  BY <1>1, <1>2, <1>5, <1>6 DEF TimerInv, TimerType, OnSteps, AlarmInTime, OnGrid

LEMMA InterruptKeepsTimerInv == TimerInv /\ periodicLedUpdateTimerISR => TimerInv'
<1> SUFFICES ASSUME TimerInv, periodicLedUpdateTimerISR PROVE TimerInv'
  OBVIOUS
<1> DEFINE start == After(timer.start, timer.period)
           late  == (clock - timer.alarm) % ClockWrap
<1>1. /\ timer.raised /\ timer' = SetAlarm(timer, start)
      /\ clock' = clock /\ first_start' = first_start
  BY DEF periodicLedUpdateTimerISR, restart
<1>2. /\ clock \in Clock /\ first_start \in Clock /\ timer.start \in Clock /\ timer.alarm \in Clock
      /\ timer.period = Period /\ start = timer.alarm /\ late \in 0..MaxLatency
      /\ Multiple(start, ClockStep)
  BY <1>1 DEF TimerInv, TimerType, OnSteps, AlarmInTime
<1>3. timer \in [period : {Period}, start : Clock, alarm : Clock,
                 armed : BOOLEAN, raised : BOOLEAN]
  BY <1>2 DEF TimerInv, TimerType
<1>4. Multiple(clock - start - late, ClockWrap)
  BY <1>2, DistanceOf
<1>5. Multiple(start - first_start, Period)
  <2>1. Period \in Nat /\ Period \in Int /\ Multiple(ClockWrap, Period)
    BY Constants DEF Positive
  <2>2. Multiple(Period, Period)
    BY <2>1 DEF Multiple
  <2>3. Multiple(timer.start - first_start, Period)
    BY <1>2 DEF TimerInv, OnGrid
  <2> QED
    BY <1>2, <2>1, <2>2, <2>3, AfterKeepsGrid
<1> HIDE DEF start, late
<1>6. /\ timer' \in [period : {0, Period}, start : Clock, alarm : Clock,
                     armed : BOOLEAN, raised : BOOLEAN]
      /\ timer'.period = Period /\ timer'.start = start /\ timer'.armed /\ ~timer'.raised
      /\ timer'.alarm = After(start, Period)
      /\ Multiple(timer'.alarm, ClockStep)
      /\ (timer'.alarm - clock) % ClockWrap \in 1..Period
  BY <1>1, <1>2, <1>3, <1>4, SettingAlarm DEF TimerInv
<1> QED
  BY <1>1, <1>2, <1>5, <1>6 DEF TimerInv, TimerType, OnSteps, AlarmInTime, OnGrid

\* The clock comes one step closer to an armed alarm, or to the end of the
\* latency of a raised one.
LEMMA TickKeepsTimerInv == TimerInv /\ Tick => TimerInv'
<1> SUFFICES ASSUME TimerInv, Tick PROVE TimerInv'
  OBVIOUS
<1> DEFINE left == (timer.alarm - clock) % ClockWrap
<1>1. /\ clock' = After(clock, ClockStep) /\ timer' = Matched(timer, clock')
      /\ first_start' = first_start /\ ~Overdue
  BY DEF Tick
<1>2. /\ clock \in Clock /\ first_start \in Clock /\ timer.alarm \in Clock
      /\ timer \in [period : {0, Period}, start : Clock, alarm : Clock,
                    armed : BOOLEAN, raised : BOOLEAN]
  BY DEF TimerInv, TimerType
<1>3. ClockStep \in Positive /\ ClockStep \in Nat /\ ClockStep \in Int /\ 0 \in Clock
  BY Constants DEF Positive, Clock
<1>4. clock' \in Clock /\ Multiple(clock + ClockStep - clock', ClockWrap)
  BY <1>1, <1>2, <1>3, AfterIsOnClock
<1>5. clock \in Int /\ clock' \in Int /\ timer.alarm \in Int /\ ClockWrap \in Int
  BY <1>2, <1>4, ClockIsInt
<1>6. Multiple(clock', ClockStep)
  <2>1. Multiple(ClockStep, ClockStep) /\ Multiple(ClockWrap, ClockStep)
    <3>1. ClockStep = 1 * ClockStep /\ 1 \in Int
      BY <1>3
    <3>2. Multiple(ClockStep, ClockStep)
      BY <3>1 DEF Multiple
    <3> QED
      BY <3>2, Constants
  <2>2. Multiple(clock - 0, ClockStep)
    BY <1>5 DEF TimerInv, OnSteps
  <2>3. Multiple(clock' - 0, ClockStep)
    BY <1>1, <1>2, <1>3, <2>1, <2>2, AfterKeepsGrid
  <2> QED
    BY <1>5, <2>3
<1>7. ASSUME timer.armed PROVE /\ timer.alarm # clock' =>
                                    (timer.alarm - clock') % ClockWrap \in 1..Period
  <2>1. left \in 1..Period /\ left \in Int /\ Multiple(timer.alarm - clock - left, ClockWrap)
    BY <1>2, <1>7, DistanceOf DEF TimerInv, AlarmInTime
  <2> HIDE DEF left
  <2>2. Multiple(left, ClockStep)
    <3>1. Multiple(timer.alarm - clock, ClockStep)
      BY <1>3, <1>5, SumOfMultiples DEF TimerInv, OnSteps
    <3>2. Multiple(timer.alarm - clock - left, ClockStep)
      BY <1>3, <1>5, <2>1, Constants, MultipleOfMultiple
    <3>3. Multiple((timer.alarm - clock) - (timer.alarm - clock - left), ClockStep)
      BY <1>3, <1>5, <2>1, <3>1, <3>2, SumOfMultiples
    <3> QED
      BY <1>5, <2>1, <3>3
  <2>3. left >= ClockStep
    <3> SUFFICES ASSUME left < ClockStep PROVE FALSE
      BY <1>3, <2>1
    <3>1. -ClockStep < left
      BY <1>3, <2>1
    <3> QED
      BY <1>3, <2>1, <2>2, <3>1, SmallMultipleIsZero
  <2>4. left - ClockStep \in 0..ClockWrap - 1 /\ left - ClockStep \in 0..Period
    BY <1>3, <2>1, <2>3, Constants DEF Positive
  <2>5. Multiple(timer.alarm - clock' - (left - ClockStep), ClockWrap)
    <3> DEFINE here == timer.alarm - clock - left
               step == clock + ClockStep - clock'
    <3>1. here \in Int /\ step \in Int
      BY <1>3, <1>5, <2>1
    <3>2. Multiple(here, ClockWrap) /\ Multiple(step, ClockWrap)
      BY <1>4, <2>1
    <3> HIDE DEF here, step
    <3>3. Multiple(here + step, ClockWrap)
      BY <1>5, <3>1, <3>2, SumOfMultiples
    <3>4. Multiple((timer.alarm - clock - left) + (clock + ClockStep - clock'), ClockWrap)
      BY <3>3 DEF here, step
    <3>5. (timer.alarm - clock - left) + (clock + ClockStep - clock')
            = timer.alarm - clock' - (left - ClockStep)
      BY <1>3, <1>5, <2>1
    <3> QED
      BY <3>4, <3>5
  <2>6. (timer.alarm - clock') % ClockWrap = left - ClockStep
    BY <1>2, <1>4, <2>4, <2>5, DistanceIs
  <2>7. ASSUME left - ClockStep = 0 PROVE timer.alarm = clock'
    <3>1. Multiple(timer.alarm - clock', ClockWrap)
      <4>1. timer.alarm - clock' - (left - ClockStep) = timer.alarm - clock'
        BY <1>5, <2>7
      <4> QED
        BY <2>5, <4>1
    <3>2. -ClockWrap < timer.alarm - clock' /\ timer.alarm - clock' < ClockWrap
      BY <1>2, <1>4, <1>5 DEF Clock
    <3>3. timer.alarm - clock' = 0
      BY <1>5, <3>1, <3>2, Constants, SmallMultipleIsZero
    <3> QED
      BY <1>5, <3>3
  <2> QED
    BY <1>3, <2>1, <2>4, <2>6, <2>7, Constants DEF Positive
<1>8. CASE timer.armed /\ timer.alarm = clock'
  <2>1. timer' = [timer EXCEPT !.armed = FALSE, !.raised = TRUE]
    BY <1>1, <1>8 DEF Matched
  <2>2. (clock' - timer.alarm) % ClockWrap = 0
    <3>1. clock' - timer.alarm - 0 = 0
      <4>1. \A c, a \in Int : a = c => c - a - 0 = 0
        OBVIOUS
      <4>2. clock' \in Int /\ timer.alarm \in Int /\ timer.alarm = clock'
        BY <1>5, <1>8
      <4> HIDE DEF left
      <4> QED
        BY <4>1, <4>2
    <3>2. \A d \in Int : Multiple(0, d)
      BY DEF Multiple
    <3>3. Multiple(clock' - timer.alarm - 0, ClockWrap)
      BY <1>5, <3>1, <3>2
    <3>4. 0 \in 0..ClockWrap - 1
      BY Constants DEF Positive
    <3> QED
      BY <1>2, <1>4, <3>3, <3>4, DistanceIs
  <2>3. 0 \in 0..MaxLatency
    BY Constants
  <2> QED
    BY <1>1, <1>2, <1>4, <1>6, <1>8, <2>1, <2>2, <2>3
       DEF TimerInv, TimerType, OnSteps, AlarmInTime, OnGrid
<1>9. CASE ~(timer.armed /\ timer.alarm = clock')
  <2>1. timer' = timer
    BY <1>1, <1>9 DEF Matched
  <2>2. timer.raised => (clock' - timer.alarm) % ClockWrap \in 0..MaxLatency
    <3> SUFFICES ASSUME timer.raised PROVE (clock' - timer.alarm) % ClockWrap \in 0..MaxLatency
      OBVIOUS
    <3>1. ~((clock' - timer.alarm) % ClockWrap > MaxLatency)
      BY <1>1 DEF Overdue
    <3>2. (clock' - timer.alarm) % ClockWrap \in 0..ClockWrap - 1
      BY <1>2, <1>4, DistanceOf
    <3> HIDE DEF Overdue
    <3> QED
      BY <1>5, <3>1, <3>2, Constants
  <2> QED
    BY <1>1, <1>2, <1>4, <1>6, <1>7, <1>9, <2>1, <2>2
       DEF TimerInv, TimerType, OnSteps, AlarmInTime, OnGrid
<1> QED
  BY <1>8, <1>9

\* The timer's invariant holds.
THEOREM TimerInvHolds == Spec => []TimerInv
<1>1. TimerInv /\ UNCHANGED timerVars => TimerInv'
  BY DEF timerVars, TimerInv, TimerType, OnSteps, AlarmInTime, OnGrid
<1>2. TimerInv /\ [Next]_vars => TimerInv'
  BY <1>1, TimerSteps, StartKeepsTimerInv, TickKeepsTimerInv, InterruptKeepsTimerInv
<1> QED
  BY <1>2, TimerInvInitially, PTL DEF Spec

\* The alarm of the LED timer is never in the past, however late the interrupt
\* that sets it, as long as it is not late by a whole period.
THEOREM AlarmStaysAhead == Spec => []AlarmAhead
<1>1. TimerInv => AlarmAhead
  BY DEF TimerInv, AlarmInTime, AlarmAhead
<1> QED
  BY <1>1, TimerInvHolds, PTL

\* The LED timer does not drift: its start times are whole periods from the
\* first one, also when interrupts are late and the clock wraps.
THEOREM TimerDoesNotDrift == Spec => []NoDrift
<1>1. TimerInv => NoDrift
  <2> SUFFICES ASSUME TimerInv, timer.period > 0
               PROVE  (timer.start - first_start) % timer.period = 0
    BY DEF NoDrift
  <2>1. timer.period = Period
    BY Constants DEF TimerInv, TimerType, Positive
  <2>2. timer.start - first_start \in Int
    <3>1. timer.start \in Clock /\ first_start \in Clock
      BY DEF TimerInv, TimerType
    <3>2. \A a, b \in Clock : a - b \in Int
      BY ClockIsInt
    <3> QED
      BY <3>1, <3>2
  <2>3. Multiple(timer.start - first_start, Period)
    BY <2>1 DEF TimerInv, OnGrid
  <2> QED
    BY <2>1, <2>2, <2>3, Constants, DividesIsMultiple
<1> QED
  BY <1>1, TimerInvHolds, PTL

-----------------------------------------------------------------------------
(* The time elapsed since the timer's start, of which the updates count.   *)
Started == timer.armed \/ timer.raised
Elapsed == (clock - timer.start) % ClockWrap

\* The wait of an interrupt that is pending.
Late == (clock - timer.alarm) % ClockWrap

LEMMA TwoPeriodsFit ==
  /\ Period \in Nat /\ ClockWrap \in Nat \ {0} /\ MaxLatency \in Nat /\ ClockStep \in Nat \ {0}
  /\ MaxLatency < Period /\ 2 * Period <= ClockWrap /\ ClockStep <= Period
<1>1. /\ Period \in Nat \ {0} /\ ClockWrap \in Nat \ {0} /\ MaxLatency \in Nat
      /\ ClockStep \in Nat \ {0} /\ MaxLatency < Period /\ Period < ClockWrap
  BY Constants DEF Positive
<1>2. 2 * Period <= ClockWrap
  <2>1. PICK n \in Int : ClockWrap = n * Period
    BY Constants DEF Multiple
  <2>2. n >= 2
    BY <1>1, <2>1
  <2>3. n * Period >= 2 * Period
    BY <1>1, <2>2
  <2> QED
    BY <1>1, <2>1, <2>3
<1>3. ClockStep <= Period
  <2>1. PICK n \in Int : Period = n * ClockStep
    BY Constants DEF Multiple
  <2>2. n >= 1
    BY <1>1, <2>1
  <2>3. n * ClockStep >= ClockStep
    BY <1>1, <2>2
  <2> QED
    BY <1>1, <2>1, <2>3
<1> QED
  BY <1>1, <1>2, <1>3

\* Wraps that add up to the difference of two sides.
LEMMA WrapsAdd ==
  ASSUME NEW x \in Int, NEW y \in Int, NEW z \in Int,
         Multiple(x, ClockWrap), Multiple(y, ClockWrap), z = x + y \/ z = y - x
  PROVE  Multiple(z, ClockWrap)
BY SumOfMultiples, ClockIsInt

\* The start of a timer in use lies one period before its alarm.
LEMMA AlarmIsAPeriodOn ==
  ASSUME TimerInv, Started
  PROVE  /\ clock \in Clock /\ timer.start \in Clock /\ timer.alarm \in Clock
         /\ clock \in Int /\ timer.start \in Int /\ timer.alarm \in Int
         /\ timer.period = Period /\ timer.alarm = After(timer.start, Period)
         /\ Multiple(timer.start + Period - timer.alarm, ClockWrap)
<1>1. /\ clock \in Clock /\ timer.start \in Clock /\ timer.alarm \in Clock
      /\ timer.period = Period /\ timer.alarm = After(timer.start, Period)
  BY DEF TimerInv, TimerType, AlarmInTime, Started
<1> QED
  BY <1>1, ClockIsInt, TwoPeriodsFit, AfterIsOnClock

LEMMA ElapsedWhenRaised ==
  ASSUME TimerInv, timer.raised
  PROVE  Late \in 0..MaxLatency /\ Elapsed = Period + Late
<1>1. /\ clock \in Clock /\ timer.start \in Clock /\ timer.alarm \in Clock
      /\ clock \in Int /\ timer.start \in Int /\ timer.alarm \in Int
      /\ Multiple(timer.start + Period - timer.alarm, ClockWrap)
  BY AlarmIsAPeriodOn DEF Started
<1>2. Late \in 0..MaxLatency /\ Multiple(clock - timer.alarm - Late, ClockWrap)
  BY <1>1, DistanceOf DEF TimerInv, AlarmInTime, Late
<1>3. Period + Late \in 0..ClockWrap - 1
  BY <1>2, TwoPeriodsFit
<1>4. Multiple(clock - timer.start - (Period + Late), ClockWrap)
  <2> DEFINE x == timer.start + Period - timer.alarm
             y == clock - timer.alarm - Late
             z == clock - timer.start - (Period + Late)
  <2>1. x \in Int /\ y \in Int /\ z \in Int /\ z = y - x
    BY <1>1, <1>2, TwoPeriodsFit
  <2>2. Multiple(x, ClockWrap) /\ Multiple(y, ClockWrap)
    BY <1>1, <1>2
  <2> HIDE DEF x, y, z
  <2>3. Multiple(z, ClockWrap)
    BY <2>1, <2>2, WrapsAdd
  <2> QED
    BY <2>3 DEF z
<1>5. (clock - timer.start) % ClockWrap = Period + Late
  BY <1>1, <1>3, <1>4, DistanceIs
<1> QED
  BY <1>2, <1>5 DEF Elapsed

LEMMA ElapsedWhenArmed ==
  ASSUME TimerInv, timer.armed
  PROVE  Elapsed \in 0..Period - 1
<1> DEFINE left == (timer.alarm - clock) % ClockWrap
<1>1. /\ clock \in Clock /\ timer.start \in Clock /\ timer.alarm \in Clock
      /\ clock \in Int /\ timer.start \in Int /\ timer.alarm \in Int
      /\ Multiple(timer.start + Period - timer.alarm, ClockWrap)
  BY AlarmIsAPeriodOn DEF Started
<1>2. left \in 1..Period /\ Multiple(timer.alarm - clock - left, ClockWrap)
  BY <1>1, DistanceOf DEF TimerInv, AlarmInTime
<1> HIDE DEF left
<1>3. Period - left \in 0..ClockWrap - 1 /\ Period - left \in 0..Period - 1
  BY <1>2, TwoPeriodsFit
<1>4. Multiple(clock - timer.start - (Period - left), ClockWrap)
  <2> DEFINE x == timer.start + Period - timer.alarm
             y == timer.alarm - clock - left
             z == clock - timer.start - (Period - left)
  <2>1. x \in Int /\ y \in Int /\ x + y \in Int /\ z \in Int /\ z = -(x + y)
    BY <1>1, <1>2, TwoPeriodsFit
  <2>2. Multiple(x, ClockWrap) /\ Multiple(y, ClockWrap)
    BY <1>1, <1>2
  <2> HIDE DEF x, y, z
  <2>3. Multiple(x + y, ClockWrap)
    BY <2>1, <2>2, WrapsAdd
  <2>4. Multiple(z, ClockWrap)
    BY <2>1, <2>3, SumOfMultiples, ClockIsInt
  <2> QED
    BY <2>4 DEF z
<1>5. (clock - timer.start) % ClockWrap = Period - left
  BY <1>1, <1>3, <1>4, DistanceIs
<1> QED
  BY <1>3, <1>5 DEF Elapsed

LEMMA ElapsedInRange ==
  ASSUME TimerInv, Started
  PROVE  /\ Elapsed \in 0..Period + MaxLatency
         /\ timer.raised => Elapsed >= Period
         /\ Multiple(clock - timer.start - Elapsed, ClockWrap)
<1>1. CASE timer.raised
  BY <1>1, ElapsedWhenRaised, TwoPeriodsFit, AlarmIsAPeriodOn, DistanceOf DEF Elapsed
<1>2. CASE ~timer.raised
  <2>1. Elapsed \in 0..Period - 1
    BY <1>2, ElapsedWhenArmed DEF Started
  <2>2. Elapsed \in 0..Period + MaxLatency
    BY <2>1, TwoPeriodsFit
  <2> QED
    BY <1>2, <2>2, AlarmIsAPeriodOn, DistanceOf DEF Elapsed
<1> QED
  BY <1>1, <1>2

\* A step of the clock adds itself: the time elapsed does not wrap, since the
\* interrupt does not wait that long.
LEMMA TickElapses ==
  ASSUME TimerInv, Started, Tick
  PROVE  Started' /\ Elapsed' = Elapsed + ClockStep
<1>1. /\ clock' = After(clock, ClockStep) /\ timer' = Matched(timer, clock') /\ ~Overdue
  BY DEF Tick
<1>2. /\ clock \in Clock /\ timer.start \in Clock /\ timer.alarm \in Clock
      /\ clock \in Int /\ timer.start \in Int /\ timer.alarm \in Int
  BY AlarmIsAPeriodOn
<1>3. clock' \in Clock /\ clock' \in Int /\ Multiple(clock + ClockStep - clock', ClockWrap)
  BY <1>1, <1>2, AfterIsOnClock, TwoPeriodsFit, ClockIsInt
<1>4. timer'.start = timer.start /\ Started'
  BY <1>1 DEF Matched, Started, TimerInv, TimerType
<1>5. Elapsed \in 0..Period + MaxLatency /\ Multiple(clock - timer.start - Elapsed, ClockWrap)
  BY ElapsedInRange
<1>6. Elapsed + ClockStep \in 0..ClockWrap - 1
  <2>1. CASE timer.raised
    <3>1. Late \in 0..MaxLatency /\ Elapsed = Period + Late
      BY <2>1, ElapsedWhenRaised
    <3>2. Multiple(clock - timer.alarm - Late, ClockWrap)
      BY <1>2, DistanceOf DEF Late
    <3>3. Late + ClockStep \in 0..ClockWrap - 1
      BY <3>1, TwoPeriodsFit
    <3>4. Multiple(clock' - timer.alarm - (Late + ClockStep), ClockWrap)
      <4> DEFINE x == clock + ClockStep - clock'
                 y == clock - timer.alarm - Late
                 z == clock' - timer.alarm - (Late + ClockStep)
      <4>1. x \in Int /\ y \in Int /\ z \in Int /\ z = y - x
        BY <1>2, <1>3, <3>1, TwoPeriodsFit
      <4>2. Multiple(x, ClockWrap) /\ Multiple(y, ClockWrap)
        BY <1>3, <3>2
      <4> HIDE DEF x, y, z
      <4>3. Multiple(z, ClockWrap)
        BY <4>1, <4>2, WrapsAdd
      <4> QED
        BY <4>3 DEF z
    <3>5. (clock' - timer.alarm) % ClockWrap = Late + ClockStep
      BY <1>2, <1>3, <3>3, <3>4, DistanceIs
    <3>6. Late + ClockStep <= MaxLatency
      BY <1>1, <2>1, <3>1, <3>5, TwoPeriodsFit DEF Overdue
    <3> QED
      BY <3>1, <3>6, TwoPeriodsFit
  <2>2. CASE ~timer.raised
    <3>1. Elapsed \in 0..Period - 1
      BY <2>2, ElapsedWhenArmed DEF Started
    <3> QED
      BY <3>1, TwoPeriodsFit
  <2> QED
    BY <2>1, <2>2
<1>7. Multiple(clock' - timer.start - (Elapsed + ClockStep), ClockWrap)
  <2> DEFINE x == clock + ClockStep - clock'
             y == clock - timer.start - Elapsed
             z == clock' - timer.start - (Elapsed + ClockStep)
  <2>1. x \in Int /\ y \in Int /\ z \in Int /\ z = y - x
    BY <1>2, <1>3, <1>5, TwoPeriodsFit
  <2>2. Multiple(x, ClockWrap) /\ Multiple(y, ClockWrap)
    BY <1>3, <1>5
  <2> HIDE DEF x, y, z
  <2>3. Multiple(z, ClockWrap)
    BY <2>1, <2>2, WrapsAdd
  <2> QED
    BY <2>3 DEF z
<1>8. (clock' - timer.start) % ClockWrap = Elapsed + ClockStep
  BY <1>2, <1>3, <1>6, <1>7, DistanceIs
<1> QED
  BY <1>4, <1>8 DEF Elapsed

\* The interrupt takes the period off, and leaves its wait.
LEMMA InterruptElapses ==
  ASSUME TimerInv, periodicLedUpdateTimerISR
  PROVE  Started' /\ Elapsed' = Elapsed - Period /\ Elapsed' \in 0..MaxLatency
<1>1. timer.raised /\ timer' = restart(timer, clock) /\ clock' = clock
  BY DEF periodicLedUpdateTimerISR
<1>2. Late \in 0..MaxLatency /\ Elapsed = Period + Late
  BY <1>1, ElapsedWhenRaised
<1>3. timer.period = Period /\ timer.alarm = After(timer.start, Period)
  BY <1>1, AlarmIsAPeriodOn DEF Started
<1>4. timer'.start = timer.alarm /\ timer'.armed
  BY <1>1, <1>3 DEF restart, SetAlarm, TimerInv, TimerType
<1>5. Elapsed' = Late
  BY <1>1, <1>4 DEF Elapsed, Late
<1> QED
  BY <1>2, <1>4, <1>5, TwoPeriodsFit DEF Started

-----------------------------------------------------------------------------
(* The LED.                                                                *)
LEMMA MinOfTwo ==
  ASSUME NEW a \in Int, NEW b \in Int
  PROVE  Min({a, b}) = (IF a <= b THEN a ELSE b) /\ Max({a, b}) = (IF a <= b THEN b ELSE a)
BY DEF Min, Max

LEMMA CappedIsInRange ==
  ASSUME NEW n \in Nat, NEW c \in Nat
  PROVE  (IF n <= c THEN n ELSE c) \in 0..c
OBVIOUS

LEMMA ScaledIsInRange ==
  ASSUME NEW top \in Nat, NEW c \in Nat \ {0}, NEW m \in 0..c, NEW half \in Nat, half < c
  PROVE  (top * m + half) \div c \in 0..top
<1> DEFINE x == top * m
<1>1. x \in Nat /\ x <= top * c
  OBVIOUS
<1> HIDE DEF x
<1>2. (x + half) \div c \in 0..top
  BY <1>1
<1> QED
  BY <1>2 DEF x

\* No duty cycle drives a slice past its top.
LEMMA LevelInRange ==
  ASSUME NEW top \in Nat, NEW duty \in Int
  PROVE  LevelFor(top, duty) \in 0..top
<1> DEFINE n == Max({duty, 0})
           m == Min({n, FullDuty})
<1>1. FullDuty \in Nat \ {0} /\ FullDuty \div 2 \in Nat /\ FullDuty \div 2 < FullDuty
  BY DEF FullDuty
<1>2. m \in 0..FullDuty
  <2>1. n \in Nat
    <3>1. n = (IF duty <= 0 THEN 0 ELSE duty)
      BY ONLY duty \in Int, 0 \in Int, MinOfTwo
    <3> HIDE DEF n
    <3> QED
      BY <3>1
  <2> HIDE DEF n
  <2>2. m = (IF n <= FullDuty THEN n ELSE FullDuty)
    BY <1>1, <2>1, MinOfTwo
  <2> QED
    BY <1>1, <2>1, <2>2, CappedIsInRange
<1>3. LevelFor(top, duty) = (top * m + FullDuty \div 2) \div FullDuty
  BY DEF LevelFor
<1> HIDE DEF m
<1> QED
  BY <1>1, <1>2, <1>3, ScaledIsInRange

\* The top of the slices once the LED is initialised, and what a slice may be.
LedTop == TopFor(K_LED_PWM_FREQUENCY)

Slice ==
  {s \in [enabled : BOOLEAN, divider : Int, top : Nat, level : [PwmChannel -> Nat],
          inverted : [PwmChannel -> BOOLEAN]] :
     \A channel \in PwmChannel : s.level[channel] <= s.top}

Led == [slices : [Component -> Slice], brightness_ : 0..100, current_color_ : Colors]

Lit(of) == \A part \in Component : of.slices[part].enabled

\* One output shows its part of a colour.
PartShows(of, part, color) ==
  of.slices[part].level[Channel[part]] = LevelFor(of.slices[part].top, Duty(of, part, color))

LEMMA Parts ==
  /\ Component = {"red", "green", "blue"}
  /\ \A part \in Component : Channel[part] = "B" /\ ChannelWritten[part] = "B"
  /\ PwmChannel = {"A", "B"}
  /\ \A color \in Colors, part \in Component : color[part] \in 0..255
BY DEF Component, Pins, Channel, ChannelWritten, ChannelOfPin, mapIndexToPwmChannel, PwmChannel,
       Colors

LEMMA ShowsParts ==
  ASSUME NEW of \in Led, NEW color, Lit(of)
  PROVE  Shows(of, color) <=> /\ PartShows(of, "red", color)
                              /\ PartShows(of, "green", color)
                              /\ PartShows(of, "blue", color)
BY Parts DEF Shows, PartShows, Lit

LEMMA SetLevelIsType ==
  ASSUME NEW of \in Led, NEW color \in Colors, NEW part \in Component
  PROVE  setLevel(of, part, color) \in Led
<1> DEFINE slice == of.slices[part]
           after == setChannelDutyCycle(slice, ChannelWritten[part], Duty(of, part, color))
<1>1. Duty(of, part, color) \in Int
  <2>1. color[part] \in 0..255 /\ of.brightness_ \in 0..100
    BY Parts DEF Led
  <2> QED
    <3>1. \A x \in 0..255, y \in 0..100 : x * y \in Int
      OBVIOUS
    <3> QED
      BY <2>1, <3>1 DEF Duty
<1>2. slice \in Slice
  BY DEF Led
<1>3. LevelFor(slice.top, Duty(of, part, color)) \in 0..slice.top
  BY <1>1, <1>2, LevelInRange DEF Slice
<1>4. after \in Slice
  BY <1>2, <1>3, Parts DEF setChannelDutyCycle, Slice
<1>5. setLevel(of, part, color) = [of EXCEPT !.slices = [of.slices EXCEPT ![part] = after]]
  BY DEF setLevel, Led
<1> HIDE DEF after, slice
<1>6. [of.slices EXCEPT ![part] = after] \in [Component -> Slice]
  BY <1>4 DEF Led
<1> QED
  BY <1>5, <1>6 DEF Led

\* setLevel sets its own output and leaves the others.
LEMMA SetLevelShows ==
  ASSUME NEW of \in Led, NEW color \in Colors, NEW part \in Component,
         NEW after, after = setLevel(of, part, color)
  PROVE  /\ PartShows(after, part, color)
         /\ \A other \in Component \ {part} : \A c : PartShows(of, other, c) => PartShows(after, other, c)
         /\ Lit(of) => Lit(after)
         /\ after.brightness_ = of.brightness_ /\ after.current_color_ = of.current_color_
<1> DEFINE slice == of.slices[part]
           new   == setChannelDutyCycle(slice, ChannelWritten[part], Duty(of, part, color))
<1>1. slice \in Slice /\ of.slices \in [Component -> Slice]
  BY DEF Led
<1>2. /\ after.slices = [of.slices EXCEPT ![part] = new]
      /\ after.brightness_ = of.brightness_ /\ after.current_color_ = of.current_color_
  BY DEF setLevel, Led
<1>3. /\ new.top = slice.top /\ new.enabled = slice.enabled
      /\ new.level["B"] = LevelFor(slice.top, Duty(of, part, color))
  BY <1>1, Parts DEF setChannelDutyCycle, Slice
<1> HIDE DEF new
<1>4. after.slices[part] = new /\ \A other \in Component \ {part} : after.slices[other] = of.slices[other]
  BY <1>1, <1>2
<1>5. \A p, c : Duty(after, p, c) = Duty(of, p, c)
  BY <1>2 DEF Duty
<1>6. PartShows(after, part, color)
  BY <1>3, <1>4, <1>5, Parts DEF PartShows
<1>7. \A other \in Component \ {part} :
        \A c : PartShows(of, other, c) => PartShows(after, other, c)
  BY <1>4, <1>5 DEF PartShows
<1>8. Lit(of) => Lit(after)
  BY <1>3, <1>4 DEF Lit
<1> QED
  BY <1>2, <1>6, <1>7, <1>8

LEMMA SetColorShows ==
  ASSUME NEW of \in Led, NEW color \in Colors, NEW after, after = setColorRGB(of, color)
  PROVE  /\ after \in Led /\ after.current_color_ = color
         /\ Lit(of) => Lit(after) /\ Shows(after, color)
<1> DEFINE r == setLevel(of, "red", color)
           g == setLevel(r, "green", color)
           b == setLevel(g, "blue", color)
<1>1. "red" \in Component /\ "green" \in Component /\ "blue" \in Component
  BY Parts
<1>2. r \in Led
  BY <1>1, SetLevelIsType
<1>3. g \in Led
  BY <1>1, <1>2, SetLevelIsType
<1>4. b \in Led
  BY <1>1, <1>3, SetLevelIsType
<1>5. PartShows(r, "red", color) /\ (Lit(of) => Lit(r))
  BY <1>1, SetLevelShows
<1>6. PartShows(g, "red", color) /\ PartShows(g, "green", color) /\ (Lit(of) => Lit(g))
  BY <1>1, <1>2, <1>5, SetLevelShows
<1>7. /\ PartShows(b, "red", color) /\ PartShows(b, "green", color) /\ PartShows(b, "blue", color)
      /\ Lit(of) => Lit(b)
  BY <1>1, <1>3, <1>6, SetLevelShows
<1>8. after = setCurrentColor(b, color)
  BY DEF setColorRGB
<1> HIDE DEF r, g, b
<1>9. /\ after \in Led /\ after.slices = b.slices /\ after.brightness_ = b.brightness_
      /\ after.current_color_ = color
  BY <1>4, <1>8 DEF setCurrentColor, Led
<1>10. Lit(of) => Lit(after)
  BY <1>7, <1>9 DEF Lit
<1>11. /\ PartShows(after, "red", color) /\ PartShows(after, "green", color)
       /\ PartShows(after, "blue", color)
  BY <1>7, <1>9 DEF PartShows, Duty
<1> QED
  BY <1>9, <1>10, <1>11, ShowsParts

LEMMA LedTopIsNat == LedTop \in Nat /\ DividerFor(K_LED_PWM_FREQUENCY) \in Int
<1> DEFINE f == K_LED_PWM_FREQUENCY
<1>1. SystemClock \in Nat /\ SystemClock >= 40000 /\ f = 20000
  BY LedFrequencyAssumption DEF K_LED_PWM_FREQUENCY
<1>2. /\ K_WRAP_REGISTER_MAX = 65535 /\ 16 * K_CLOCK_DIVIDER_MAX = 4096
      /\ 16 * K_CLOCK_DIVIDER_MIN = 16 /\ K_CLOCK_DIVIDER_MAX = 256
  BY DEF K_WRAP_REGISTER_MAX, K_CLOCK_DIVIDER_MAX, K_CLOCK_DIVIDER_MIN
<1>3. DividerFor(f) = IF SystemClock \div 65535 < 20000 THEN 16
                      ELSE Min({(16 * SystemClock) \div (20000 * 65535), 4096})
  BY <1>1, <1>2 DEF DividerFor
<1>4. (16 * SystemClock) \div (20000 * 65535) \in Nat
  BY <1>1
<1>5. /\ DividerFor(f) \in Int
      /\ DividerFor(f) = 4096 => (16 * SystemClock) \div (20000 * 65535) >= 4096
  BY <1>3, <1>4, MinOfTwo
<1> DEFINE top == IF DividerFor(f) = 4096 THEN SystemClock \div (256 * 20000) - 1
                  ELSE IF SystemClock \div 65535 < 20000 THEN SystemClock \div 20000 - 1
                  ELSE 65534
<1>6. LedTop = Min({top, 65535})
  BY <1>1, <1>2 DEF LedTop, TopFor
<1>7. top \in Nat
  <2>1. CASE DividerFor(f) = 4096
    <3>1. SystemClock \div (256 * 20000) - 1 \in Nat
      BY <1>1, <1>5, <2>1
    <3> QED
      BY <2>1, <3>1
  <2>2. CASE DividerFor(f) # 4096
    BY <1>1, <2>2
  <2> QED
    BY <2>1, <2>2
<1> HIDE DEF top
<1>8. LedTop \in Nat
  BY <1>6, <1>7, MinOfTwo
<1> QED
  BY <1>5, <1>8

LEMMA InitLedIsType ==
  ASSUME NEW of \in Led
  PROVE  initLed(of) \in Led /\ initLed(of).current_color_ = of.current_color_
<1> DEFINE slice == DefaultSlice
           new   == setFrequency(DefaultSlice, K_LED_PWM_FREQUENCY)
<1>1. slice \in [enabled : BOOLEAN, divider : Int, top : Nat, level : [PwmChannel -> Nat],
                 inverted : [PwmChannel -> BOOLEAN]]
  BY DEF DefaultSlice, K_CLOCK_DIVIDER_MIN, K_WRAP_REGISTER_MAX
<1>2. Max({K_LED_PWM_FREQUENCY, 1}) = K_LED_PWM_FREQUENCY
  BY MinOfTwo DEF K_LED_PWM_FREQUENCY
<1> DEFINE retimed == [slice EXCEPT !.divider = DividerFor(K_LED_PWM_FREQUENCY), !.top = LedTop]
<1>3. /\ retimed \in [enabled : BOOLEAN, divider : Int, top : Nat, level : [PwmChannel -> Nat],
                      inverted : [PwmChannel -> BOOLEAN]]
      /\ retimed.top = LedTop
  BY <1>1, LedTopIsNat
<1> DEFINE levels == [channel \in PwmChannel |->
                        LevelFor(retimed.top, getChannelDutyCycle(slice, channel))]
<1>4. new = [retimed EXCEPT !.level = levels]
  <2> DEFINE Ret(f) == [slice EXCEPT !.divider = DividerFor(f), !.top = TopFor(f)]
             New(f) == [Ret(f) EXCEPT !.level = [channel \in PwmChannel |->
                          LevelFor(Ret(f).top, getChannelDutyCycle(slice, channel))]]
  <2>1. new = New(Max({K_LED_PWM_FREQUENCY, 1}))
    BY DEF setFrequency
  <2>2. New(K_LED_PWM_FREQUENCY) = [retimed EXCEPT !.level = levels]
    BY DEF LedTop
  <2> HIDE DEF New
  <2> QED
    BY <1>2, <2>1, <2>2
<1>5. \A channel \in PwmChannel : levels[channel] \in 0..LedTop
  <2> SUFFICES ASSUME NEW channel \in PwmChannel PROVE levels[channel] \in 0..LedTop
    OBVIOUS
  <2>1. slice.level[channel] = 0 /\ slice.top = 65535 /\ FullDuty = 25500
    BY DEF DefaultSlice, K_WRAP_REGISTER_MAX, FullDuty
  <2>2. getChannelDutyCycle(slice, channel) = 0
    BY <2>1 DEF getChannelDutyCycle
  <2> HIDE DEF retimed
  <2> QED
    BY <1>3, <2>2, LedTopIsNat, LevelInRange
<1> HIDE DEF retimed, slice
<1>6. levels \in [PwmChannel -> Nat]
  BY <1>5, LedTopIsNat
<1> HIDE DEF levels
<1>7. new \in Slice
  BY <1>3, <1>4, <1>5, <1>6, LedTopIsNat DEF Slice
<1> HIDE DEF new
<1> QED
  BY <1>7 DEF initLed, OnSlices, Led, new

LEMMA TurnOnIsType ==
  ASSUME NEW of \in Led
  PROVE  turnOn(of) \in Led /\ Lit(turnOn(of)) /\ turnOn(of).current_color_ = of.current_color_
<1>1. \A slice \in Slice : enable(slice) \in Slice /\ enable(slice).enabled
  BY DEF enable, Slice
<1>2. turnOn(of) = [of EXCEPT !.slices = [part \in Component |-> enable(of.slices[part])]]
  BY DEF turnOn, OnSlices, Led
<1> QED
  BY <1>1, <1>2 DEF Led, Lit

LEMMA SetBrightnessIsType ==
  ASSUME NEW of \in Led, NEW percentage \in Int,
         NEW after, after = setBrightnessMultiplier(of, percentage)
  PROVE  /\ after \in Led /\ after.slices = of.slices
         /\ after.current_color_ = of.current_color_
<1> DEFINE n == Max({percentage, 0})
<1>1. n \in Nat
  <2>1. n = (IF percentage <= 0 THEN 0 ELSE percentage)
    BY ONLY percentage \in Int, 0 \in Int, MinOfTwo
  <2> HIDE DEF n
  <2> QED
    BY <2>1
<1>2. after = [of EXCEPT !.brightness_ = Min({n, 100})]
  BY DEF setBrightnessMultiplier
<1> HIDE DEF n
<1>3. Min({n, 100}) \in 0..100
  <2>1. Min({n, 100}) = (IF n <= 100 THEN n ELSE 100)
    BY <1>1, MinOfTwo
  <2> QED
    BY <1>1, <2>1
<1> QED
  BY <1>2, <1>3 DEF Led

LEMMA SetCurrentColorIsType ==
  ASSUME NEW of \in Led, NEW color \in Colors, NEW after, after = setCurrentColor(of, color)
  PROVE  /\ after \in Led /\ after.slices = of.slices /\ after.brightness_ = of.brightness_
         /\ after.current_color_ = color
BY DEF setCurrentColor, Led

LEMMA LedDriverIsType == LedDriver \in Led
<1>1. DefaultSlice \in Slice
  BY DEF DefaultSlice, Slice, K_CLOCK_DIVIDER_MIN, K_WRAP_REGISTER_MAX
<1>2. K_DISABLED \in Colors
  BY DEF K_DISABLED, RGB, Colors
<1> QED
  BY <1>1, <1>2 DEF LedDriver, Led

LEMMA NamedColors == K_RED \in Colors /\ K_YELLOW \in Colors /\ K_DISABLED \in Colors
BY DEF K_RED, K_YELLOW, K_DISABLED, RGB, Colors

-----------------------------------------------------------------------------
(* Types.                                                                  *)
ControllerType ==
  [base_color_ : Colors, override_color_ : Colors, is_blinking_ : BOOLEAN,
   blink_duration_ms_ : Nat, effect_duration_left_ms_ : Nat, blink_state_ : BOOLEAN]

LevelStep(part, color)     == [do |-> "level", part |-> part, color |-> color]
CurrentStep(color)         == [do |-> "current", color |-> color]
BrightnessStep(percentage) == [do |-> "brightness", percentage |-> percentage]

Plain == {"init_led", "turn_on", "start_timer", "connect_print", "set_reaction",
          "connect_handler", "print", "flush", "halt"}

StoreStep ==
  {Store("base_color_", color) : color \in Colors}
  \cup {Store("override_color_", color) : color \in Colors}
  \cup {Store("is_blinking_", b) : b \in BOOLEAN}
  \cup {Store("blink_duration_ms_", n) : n \in Nat}
  \cup {Store("effect_duration_left_ms_", n) : n \in Nat}

\* The steps the thread may have before it.
ThreadStep ==
  {[do |-> what] : what \in Plain}
  \cup {LevelStep(part, color) : part \in Component, color \in Colors}
  \cup {CurrentStep(color) : color \in Colors}
  \cup {BrightnessStep(n) : n \in Int}
  \cup StoreStep

Todo == Seq(SUBSET ThreadStep)

LedTypes ==
  /\ led \in Led /\ controller \in ControllerType /\ todo \in Todo
  /\ mode \in {"boots", "runs", "fails", "halted"}
  /\ queued \in BOOLEAN /\ ticked \in BOOLEAN /\ astray \in BOOLEAN
  /\ asked \in Nat /\ EffectTime <= asked

LEMMA SetsOfSteps ==
  /\ \A what \in Plain : {[do |-> what]} \in SUBSET ThreadStep
  /\ \A part \in Component, color \in Colors : {LevelStep(part, color)} \in SUBSET ThreadStep
  /\ \A color \in Colors : {CurrentStep(color)} \in SUBSET ThreadStep
  /\ \A n \in Int : {BrightnessStep(n)} \in SUBSET ThreadStep
  /\ SUBSET StoreStep \subseteq SUBSET ThreadStep
BY DEF ThreadStep

LEMMA Stores ==
  /\ \A color \in Colors : Store("base_color_", color) \in StoreStep
  /\ \A color \in Colors : Store("override_color_", color) \in StoreStep
  /\ \A b \in BOOLEAN : Store("is_blinking_", b) \in StoreStep
  /\ \A n \in Nat : Store("blink_duration_ms_", n) \in StoreStep
  /\ \A n \in Nat : Store("effect_duration_left_ms_", n) \in StoreStep
BY DEF StoreStep

\* What a sequence with a first element is.
LEMMA OneMore ==
  ASSUME NEW S \in SUBSET ThreadStep, NEW rest \in Todo
  PROVE  /\ <<S>> \o rest \in Todo /\ <<S>> \o rest # << >>
         /\ Head(<<S>> \o rest) = S /\ Tail(<<S>> \o rest) = rest
<1>1. <<S>> \in Todo /\ Len(<<S>>) = 1 /\ <<S>>[1] = S
  BY DEF Todo
<1> DEFINE all == <<S>> \o rest
<1>2. all \in Todo /\ Len(all) = 1 + Len(rest)
  BY <1>1, ConcatProperties DEF Todo
<1>3. Len(rest) \in Nat
  BY DEF Todo
<1>4. all[1] = S /\ \A i \in 1..Len(rest) : all[i + 1] = rest[i]
  BY <1>1, <1>2, <1>3, ConcatProperties DEF Todo
<1> HIDE DEF all
<1>5. all # << >> /\ Head(all) = S
  BY <1>2, <1>3, <1>4 DEF Todo
<1>6. Tail(all) \in Todo /\ Len(Tail(all)) = Len(rest)
      /\ \A i \in 1..Len(rest) : Tail(all)[i] = all[i + 1]
  BY <1>2, <1>3, <1>5 DEF Todo
<1>7. Tail(all) = rest
  BY <1>3, <1>4, <1>6, SeqEqual DEF Todo
<1> QED
  BY <1>2, <1>5, <1>7 DEF all

LEMMA SetColorStepsTyped ==
  ASSUME NEW color \in Colors
  PROVE  SetColorSteps(color) \in Todo
<1>1. /\ {LevelStep("red", color)} \in SUBSET ThreadStep
      /\ {LevelStep("green", color)} \in SUBSET ThreadStep
      /\ {LevelStep("blue", color)} \in SUBSET ThreadStep
      /\ {CurrentStep(color)} \in SUBSET ThreadStep
  BY SetsOfSteps, Parts
<1>2. SetColorSteps(color) = <<{LevelStep("red", color)}, {LevelStep("green", color)},
                               {LevelStep("blue", color)}, {CurrentStep(color)}>>
  BY DEF SetColorSteps, LevelStep, CurrentStep
<1> QED
  BY <1>1, <1>2 DEF Todo

LEMMA ConcatTyped ==
  ASSUME NEW s \in Todo, NEW t \in Todo
  PROVE  s \o t \in Todo
BY ConcatProperties DEF Todo

LEMMA OperationsTyped ==
  ASSUME NEW color \in Colors, NEW n \in Nat, NEW percentage \in Int
  PROVE  /\ setConstantBaseColor(color) \in Todo
         /\ flashOverrideColor(color, n) \in Todo
         /\ startOverrideColorBlinking(color, n) \in Todo
         /\ stopOverrideColorBlinking \in Todo
         /\ setBrightness(percentage) \in Todo
<1>1. \A S \in SUBSET ThreadStep : <<S>> \in Todo
  BY DEF Todo
<1>2. /\ {Store("base_color_", color)} \in SUBSET ThreadStep
      /\ {Store("effect_duration_left_ms_", n)} \in SUBSET ThreadStep
  BY Stores, SetsOfSteps
<1> DEFINE o == Store("override_color_", color)
           e == Store("effect_duration_left_ms_", n)
           d == Store("blink_duration_ms_", n)
           b == Store("is_blinking_", TRUE)
           f == Store("is_blinking_", FALSE)
           z == Store("effect_duration_left_ms_", 0)
<1>3. /\ o \in StoreStep /\ e \in StoreStep /\ d \in StoreStep
      /\ b \in StoreStep /\ f \in StoreStep /\ z \in StoreStep
  BY Stores
<1> HIDE DEF o, e, d, b, f, z
<1>4. {o, e, d, b} \in SUBSET ThreadStep /\ {f, z} \in SUBSET ThreadStep
  BY <1>3, SetsOfSteps
<1>5. <<{BrightnessStep(percentage)}>> \in Todo
  BY <1>1, SetsOfSteps
<1>6. SetColorSteps(color) \in Todo
  BY SetColorStepsTyped
<1>7. /\ setConstantBaseColor(color) \in Todo
      /\ flashOverrideColor(color, n) \in Todo
  BY <1>1, <1>2, <1>6, ConcatTyped DEF setConstantBaseColor, flashOverrideColor
<1> QED
  BY <1>1, <1>4, <1>5, <1>7
     DEF o, e, d, b, f, z, startOverrideColorBlinking, stopOverrideColorBlinking, setBrightness, BrightnessStep

LEMMA DoTyped == \A what \in Plain : Do(what) \in Todo
<1> SUFFICES ASSUME NEW what \in Plain PROVE Do(what) \in Todo
  OBVIOUS
<1>1. {[do |-> what]} \in SUBSET ThreadStep
  BY SetsOfSteps
<1> QED
  BY <1>1 DEF Do, Todo

LEMMA MainTyped == main \in Todo
<1>1. /\ Do("init_led") \in Todo /\ Do("turn_on") \in Todo /\ Do("start_timer") \in Todo
      /\ Do("connect_print") \in Todo /\ Do("set_reaction") \in Todo
      /\ Do("connect_handler") \in Todo /\ Do("print") \in Todo
  BY DoTyped DEF Plain
<1>2. setBrightness(5) \in Todo /\ setConstantBaseColor(K_YELLOW) \in Todo
  BY NamedColors, OperationsTyped
<1>3. initHW \in Todo /\ initSWLibs \in Todo
  BY <1>1, <1>2, ConcatTyped DEF initHW, initSWLibs
<1> QED
  BY <1>1, <1>2, <1>3, ConcatTyped DEF main

LEMMA AssertFailTyped ==
  ASSUME NEW level
  PROVE  onAssertFail(level, assertions, onAssertionFailed, Do("print"), Do("flush"), Do("halt"))
           \in Todo
<1>1. Do("print") \in Todo /\ Do("flush") \in Todo /\ Do("halt") \in Todo /\ << >> \in Todo
  BY DoTyped DEF Plain, Todo
<1>2. onAssertionFailed \in Todo
  BY NamedColors, OperationsTyped DEF onAssertionFailed
<1> DEFINE called == IF CallsHandler(assertions) THEN onAssertionFailed ELSE << >>
           halted == IF BreaksPoint(assertions) THEN Do("halt") ELSE << >>
<1>3. called \in Todo /\ halted \in Todo
  BY <1>1, <1>2
<1> HIDE DEF called, halted
<1>4. called \o Do("flush") \in Todo /\ Do("print") \o Do("flush") \in Todo
  BY <1>1, <1>3, ConcatTyped
<1>5. (called \o Do("flush")) \o halted \in Todo
  BY <1>3, <1>4, ConcatTyped
<1>6. (Do("print") \o Do("flush")) \o called \in Todo
  BY <1>3, <1>4, ConcatTyped
<1>7. ((Do("print") \o Do("flush")) \o called) \o halted \in Todo
  BY <1>3, <1>6, ConcatTyped
<1> QED
  BY <1>5, <1>7 DEF onAssertFail, called, halted

LEMMA StepKinds ==
  ASSUME NEW step \in ThreadStep
  PROVE  /\ step.do = "level" => step.part \in Component /\ step.color \in Colors
         /\ step.do = "current" => step.color \in Colors
         /\ step.do = "brightness" => step.percentage \in Int
         /\ step.do = "store" => step \in StoreStep
<1>1. CASE \E what \in Plain : step = [do |-> what]
  BY <1>1 DEF Plain
<1>2. CASE \E part \in Component, color \in Colors : step = LevelStep(part, color)
  BY <1>2 DEF LevelStep
<1>3. CASE \E color \in Colors : step = CurrentStep(color)
  BY <1>3 DEF CurrentStep
<1>4. CASE \E n \in Int : step = BrightnessStep(n)
  BY <1>4 DEF BrightnessStep
<1>5. CASE step \in StoreStep
  <2>1. step.do = "store"
    BY <1>5 DEF StoreStep, Store
  <2> QED
    BY <1>5, <2>1
<1> QED
  BY <1>1, <1>2, <1>3, <1>4, <1>5 DEF ThreadStep

LEMMA StoreKinds ==
  ASSUME NEW step \in StoreStep
  PROVE  \/ step.field = "base_color_" /\ step.value \in Colors
         \/ step.field = "override_color_" /\ step.value \in Colors
         \/ step.field = "is_blinking_" /\ step.value \in BOOLEAN
         \/ step.field = "blink_duration_ms_" /\ step.value \in Nat
         \/ step.field = "effect_duration_left_ms_" /\ step.value \in Nat
BY DEF StoreStep, Store

LEMMA RestTyped ==
  ASSUME todo \in Todo, todo # << >>, NEW step \in Head(todo)
  PROVE  step \in ThreadStep /\ Tail(todo) \in Todo /\ Rest(step) \in Todo
<1>1. Head(todo) \in SUBSET ThreadStep /\ Tail(todo) \in Todo
  BY DEF Todo
<1>2. Head(todo) \ {step} \in SUBSET ThreadStep
  BY <1>1
<1>3. <<Head(todo) \ {step}>> \o Tail(todo) \in Todo
  BY <1>1, <1>2, OneMore
<1> QED
  BY <1>1, <1>3 DEF Rest

\* What periodicUpdate does to a controller, and the colour it asks for.
LEMMA NoColorIsNone == NoColor \notin Colors
<1>1. \A color \in Colors : DOMAIN color = {"red", "green", "blue"}
  BY DEF Colors
<1>2. DOMAIN NoColor = {"none"}
  BY DEF NoColor
<1> QED
  BY <1>1, <1>2

CountsDown(c, after, delta) ==
  /\ c.effect_duration_left_ms_ > 0 => delta < c.effect_duration_left_ms_
  /\ after = [c EXCEPT !.effect_duration_left_ms_ = IF @ = 0 THEN 0 ELSE @ - delta]

Toggles(c, after, delta) ==
  /\ c.effect_duration_left_ms_ > 0 /\ delta >= c.effect_duration_left_ms_ /\ c.is_blinking_
  /\ after = [c EXCEPT !.effect_duration_left_ms_ = c.blink_duration_ms_, !.blink_state_ = ~@]

Finishes(c, after, delta) ==
  /\ c.effect_duration_left_ms_ > 0 /\ delta >= c.effect_duration_left_ms_ /\ ~c.is_blinking_
  /\ after = [c EXCEPT !.effect_duration_left_ms_ = 0]

LEMMA UpdateCases ==
  ASSUME NEW c \in ControllerType, NEW delta \in Nat, NEW u, u = periodicUpdate(c, delta)
  PROVE  /\ u.controller \in ControllerType
         /\ \/ CountsDown(c, u.controller, delta) /\ u.color = NoColor
            \/ Toggles(c, u.controller, delta) /\ u.color \in {c.base_color_, c.override_color_}
            \/ Finishes(c, u.controller, delta) /\ u.color = c.base_color_
<1>1. CASE c.effect_duration_left_ms_ = 0
  <2>1. u.controller = c /\ u.color = NoColor
    BY <1>1 DEF periodicUpdate, Updated
  <2>2. [c EXCEPT !.effect_duration_left_ms_ = IF @ = 0 THEN 0 ELSE @ - delta] = c
    BY <1>1 DEF ControllerType
  <2> QED
    BY <1>1, <2>1, <2>2 DEF CountsDown
<1>2. CASE c.effect_duration_left_ms_ # 0 /\ ~(delta >= c.effect_duration_left_ms_)
  <2>1. /\ u.controller = [c EXCEPT !.effect_duration_left_ms_ = @ - delta]
        /\ u.color = NoColor
    BY <1>2 DEF periodicUpdate, Updated, EffectEnds, ControllerType
  <2>2. /\ c.effect_duration_left_ms_ \in Nat /\ delta < c.effect_duration_left_ms_
        /\ c.effect_duration_left_ms_ - delta \in Nat
    BY <1>2 DEF ControllerType
  <2>3. u.controller \in ControllerType
    BY <2>1, <2>2 DEF ControllerType
  <2> QED
    BY <1>2, <2>1, <2>2, <2>3 DEF CountsDown
<1>3. CASE /\ c.effect_duration_left_ms_ # 0 /\ delta >= c.effect_duration_left_ms_
           /\ c.is_blinking_
  <2>1. c.effect_duration_left_ms_ > 0
    BY <1>3 DEF ControllerType
  <2>2. /\ u.controller = [c EXCEPT !.effect_duration_left_ms_ = c.blink_duration_ms_,
                                    !.blink_state_ = ~@]
        /\ u.color \in {c.base_color_, c.override_color_}
    BY <1>3, <2>1 DEF periodicUpdate, Updated, EffectEnds, ToggledColor
  <2>3. u.controller \in ControllerType
    BY <2>2 DEF ControllerType
  <2> QED
    BY <1>3, <2>1, <2>2, <2>3 DEF Toggles
<1>4. CASE /\ c.effect_duration_left_ms_ # 0 /\ delta >= c.effect_duration_left_ms_
           /\ ~c.is_blinking_
  <2>1. c.effect_duration_left_ms_ > 0
    BY <1>4 DEF ControllerType
  <2>2. /\ u.controller = [c EXCEPT !.effect_duration_left_ms_ = 0]
        /\ u.color = c.base_color_
    BY <1>4, <2>1 DEF periodicUpdate, Updated, EffectEnds
  <2>3. u.controller \in ControllerType
    BY <2>2 DEF ControllerType
  <2> QED
    BY <1>4, <2>1, <2>2, <2>3 DEF Finishes
<1> QED
  BY <1>1, <1>2, <1>3, <1>4

\* The interrupt: it counts the effect's time down, or writes a colour when the
\* time is over.
InterruptCounts ==
  /\ led' = led /\ astray' = astray
  /\ CountsDown(controller, controller', Delta)

InterruptPaints(color) ==
  /\ led' = setColorRGB(led, color) /\ astray' = ColorUnderWay
  /\ \/ Toggles(controller, controller', Delta)
     \/ Finishes(controller, controller', Delta) /\ color = controller.base_color_

LEMMA InterruptCases ==
  ASSUME controller \in ControllerType, Delta \in Nat, periodicLedUpdateTimerISR
  PROVE  /\ controller' \in ControllerType
         /\ timer.raised /\ mode # "halted"
         /\ UNCHANGED <<clock, todo, pointers, assertions, queued, mode, ticked, first_start>>
         /\ InterruptCounts \/ \E color \in Colors : InterruptPaints(color)
<1> DEFINE u == periodicUpdate(controller, Delta)
<1>1. /\ controller' = u.controller
      /\ IF u.color = NoColor THEN UNCHANGED <<led, astray>>
         ELSE led' = setColorRGB(led, u.color) /\ astray' = ColorUnderWay
      /\ timer.raised /\ mode # "halted"
      /\ UNCHANGED <<clock, todo, pointers, assertions, queued, mode, ticked, first_start>>
  BY DEF periodicLedUpdateTimerISR, swVars
<1>2. /\ u.controller \in ControllerType
      /\ \/ CountsDown(controller, u.controller, Delta) /\ u.color = NoColor
         \/ /\ Toggles(controller, u.controller, Delta)
            /\ u.color \in {controller.base_color_, controller.override_color_}
         \/ Finishes(controller, u.controller, Delta) /\ u.color = controller.base_color_
  BY UpdateCases
<1>3. controller.base_color_ \in Colors /\ controller.override_color_ \in Colors
  BY DEF ControllerType
<1> HIDE DEF u
<1> QED
  BY <1>1, <1>2, <1>3, NoColorIsNone DEF InterruptCounts, InterruptPaints

LEMMA DeltaIsNat ==
  ASSUME TimerType
  PROVE  Delta \in Nat
<1>1. clock \in Clock /\ timer.start \in Clock
  BY DEF TimerType
<1>2. (clock - timer.start) % ClockWrap \in 0..ClockWrap - 1 /\ ClockWrap \in Nat
  BY <1>1, DistanceOf, Constants DEF Positive
<1>3. \A n \in Nat : n \div 1000 \in Nat
  OBVIOUS
<1> QED
  BY <1>2, <1>3 DEF Delta, getElapsedMilliseconds, getElapsedMicroseconds

LEMMA PeriodicTypes ==
  ASSUME LedTypes, TimerType, periodicLedUpdateTimerISR
  PROVE  LedTypes'
<1>1. /\ controller' \in ControllerType
      /\ UNCHANGED <<clock, todo, pointers, assertions, queued, mode, ticked, first_start>>
      /\ InterruptCounts \/ \E color \in Colors : InterruptPaints(color)
  BY InterruptCases, DeltaIsNat DEF LedTypes
<1>2. led' \in Led
  BY <1>1, SetColorShows DEF LedTypes, InterruptCounts, InterruptPaints
<1>3. astray' \in BOOLEAN
  BY <1>1 DEF LedTypes, InterruptCounts, InterruptPaints, ColorUnderWay
<1>4. asked' \in Nat /\ controller'.effect_duration_left_ms_ <= asked'
  <2>1. IF RanOut(controller, controller')
        THEN asked' = IF controller.is_blinking_ THEN controller.blink_duration_ms_ ELSE 0
        ELSE asked' = asked
    BY DEF periodicLedUpdateTimerISR, effects
  <2>2. /\ asked \in Nat /\ controller \in ControllerType
        /\ controller.effect_duration_left_ms_ <= asked
    BY DEF LedTypes, EffectTime
  <2>3. CASE CountsDown(controller, controller', Delta)
    <3>1. /\ controller'.effect_duration_left_ms_
               = IF controller.effect_duration_left_ms_ = 0 THEN 0
                 ELSE controller.effect_duration_left_ms_ - Delta
          /\ controller'.blink_state_ = controller.blink_state_
      BY <2>2, <2>3 DEF CountsDown, ControllerType
    <3>2. ~RanOut(controller, controller')
      BY <2>2, <2>3, <3>1, DeltaIsNat DEF RanOut, CountsDown, ControllerType
    <3> QED
      BY <2>1, <2>2, <3>1, <3>2, DeltaIsNat DEF ControllerType
  <2>4. CASE Toggles(controller, controller', Delta)
    <3>1. /\ controller'.effect_duration_left_ms_ = controller.blink_duration_ms_
          /\ controller'.blink_state_ = ~controller.blink_state_
      BY <2>2, <2>4 DEF Toggles, ControllerType
    <3>2. RanOut(controller, controller')
      BY <2>2, <2>4, <3>1 DEF RanOut, Toggles, ControllerType
    <3> QED
      BY <2>1, <2>2, <2>4, <3>1, <3>2 DEF ControllerType, Toggles
  <2>5. CASE Finishes(controller, controller', Delta)
    <3>1. controller'.effect_duration_left_ms_ = 0
      BY <2>2, <2>5 DEF Finishes, ControllerType
    <3> QED
      BY <2>1, <2>2, <2>5, <3>1 DEF RanOut, ControllerType, Finishes
  <2> QED
    BY <1>1, <2>3, <2>4, <2>5 DEF InterruptCounts, InterruptPaints
<1> QED
  BY <1>1, <1>2, <1>3, <1>4 DEF LedTypes, EffectTime

\* The steps of the thread.
LEMMA GoesTyped ==
  ASSUME NEW rest \in Todo, ticked \in BOOLEAN, Goes(rest)
  PROVE  todo' \in Todo /\ ticked' \in BOOLEAN
BY DEF Goes

LEMMA BootTypes ==
  ASSUME LedTypes, Boot \/ PrintMessage \/ Flush \/ Halt
  PROVE  LedTypes'
<1>1. \A what : BootStep(what) => todo' \in Todo /\ ticked' \in BOOLEAN
  <2> SUFFICES ASSUME NEW what, BootStep(what) PROVE todo' \in Todo /\ ticked' \in BOOLEAN
    OBVIOUS
  <2>1. todo # << >> /\ [do |-> what] \in Head(todo) /\ Goes(Tail(todo))
    BY DEF BootStep, ThreadDoes
  <2>2. Tail(todo) \in Todo
    BY <2>1, RestTyped DEF LedTypes
  <2> QED
    BY <2>1, <2>2, GoesTyped DEF LedTypes
<1>2. CASE InitLed
  BY <1>1, <1>2, InitLedIsType DEF InitLed, LedTypes, EffectTime, swVars, effects
<1>3. CASE TurnOn
  BY <1>1, <1>3, TurnOnIsType DEF TurnOn, LedTypes, EffectTime, swVars, effects
<1>4. CASE StartTimer
  BY <1>1, <1>4 DEF StartTimer, LedTypes, EffectTime, swVars, effects
<1>5. CASE ConnectPrint \/ SetReaction \/ ConnectHandler
  BY <1>1, <1>5 DEF ConnectPrint, SetReaction, ConnectHandler, LedTypes, EffectTime, effects
<1>6. CASE EnterMainLoop
  BY <1>6 DEF EnterMainLoop, LedTypes, EffectTime, effects
<1>7. CASE PrintMessage
  BY <1>1, <1>7 DEF PrintMessage, Prints, LedTypes, EffectTime, effects
<1>8. CASE Flush
  BY <1>1, <1>8 DEF Flush, LedTypes, EffectTime, swVars, effects
<1>9. CASE Halt
  BY <1>1, <1>9 DEF Halt, LedTypes, EffectTime, effects
<1> QED
  BY <1>2, <1>3, <1>4, <1>5, <1>6, <1>7, <1>8, <1>9 DEF Boot

LEMMA WriteTypes ==
  ASSUME LedTypes, WriteLevel \/ WriteCurrentColor \/ StoreField \/ WriteBrightness
  PROVE  LedTypes'
<1>1. CASE WriteLevel
  <2>1. PICK step \in Steps : /\ ThreadDoes("level", step)
                              /\ led' = setLevel(led, step.part, step.color)
                              /\ Goes(Rest(step))
                              /\ UNCHANGED <<controller, swVars, effects, astray>>
    BY <1>1 DEF WriteLevel
  <2>2. todo # << >> /\ step \in Head(todo) /\ step.do = "level"
    BY <2>1 DEF ThreadDoes
  <2>3. step \in ThreadStep /\ Rest(step) \in Todo
    BY <2>2, RestTyped DEF LedTypes
  <2>4. step.part \in Component /\ step.color \in Colors
    BY <2>2, <2>3, StepKinds
  <2>5. led' \in Led
    BY <2>1, <2>4, SetLevelIsType DEF LedTypes
  <2> QED
    BY <2>1, <2>3, <2>5, GoesTyped DEF LedTypes, swVars, effects, EffectTime
<1>2. CASE WriteCurrentColor
  <2>1. PICK step \in Steps : /\ ThreadDoes("current", step)
                              /\ led' = setCurrentColor(led, step.color)
                              /\ Goes(Rest(step))
                              /\ UNCHANGED <<controller, swVars, effects, astray>>
    BY <1>2 DEF WriteCurrentColor
  <2>2. todo # << >> /\ step \in Head(todo) /\ step.do = "current"
    BY <2>1 DEF ThreadDoes
  <2>3. step \in ThreadStep /\ Rest(step) \in Todo
    BY <2>2, RestTyped DEF LedTypes
  <2>4. step.color \in Colors
    BY <2>2, <2>3, StepKinds
  <2>5. led' \in Led
    BY <2>1, <2>4, SetCurrentColorIsType DEF LedTypes
  <2> QED
    BY <2>1, <2>3, <2>5, GoesTyped DEF LedTypes, swVars, effects, EffectTime
<1>3. CASE StoreField
  <2>1. PICK step \in Steps :
          /\ ThreadDoes("store", step)
          /\ controller' = [controller EXCEPT ![step.field] = step.value]
          /\ IF step.field = "effect_duration_left_ms_"
             THEN /\ asked' = step.value
                  /\ astray' = (astray \/ (step.value = 0 /\
                                           led.current_color_ # controller.base_color_))
             ELSE UNCHANGED <<effects, astray>>
          /\ Goes(Rest(step))
          /\ UNCHANGED <<led, swVars>>
    BY <1>3 DEF StoreField
  <2>2. todo # << >> /\ step \in Head(todo) /\ step.do = "store"
    BY <2>1 DEF ThreadDoes
  <2>3. step \in ThreadStep /\ Rest(step) \in Todo
    BY <2>2, RestTyped DEF LedTypes
  <2>4. step \in StoreStep
    BY <2>2, <2>3, StepKinds
  <2>5. controller' \in ControllerType
    BY <2>1, <2>4, StoreKinds DEF LedTypes, ControllerType
  <2>6. astray' \in BOOLEAN
    BY <2>1 DEF LedTypes
  <2>7. asked' \in Nat /\ controller'.effect_duration_left_ms_ <= asked'
    <3>1. CASE step.field = "effect_duration_left_ms_"
      <4>1. asked' = step.value /\ step.value \in Nat
        BY <2>1, <2>4, <3>1, StoreKinds
      <4>2. controller'.effect_duration_left_ms_ = step.value
        BY <2>1, <3>1 DEF LedTypes, ControllerType
      <4> QED
        BY <4>1, <4>2
    <3>2. CASE step.field # "effect_duration_left_ms_"
      BY <2>1, <2>4, <3>2, StoreKinds DEF LedTypes, ControllerType, effects, EffectTime
    <3> QED
      BY <3>1, <3>2
  <2> QED
    BY <2>1, <2>3, <2>5, <2>6, <2>7, GoesTyped DEF LedTypes, swVars, EffectTime
<1>4. CASE WriteBrightness
  <2>1. PICK step \in Steps : /\ ThreadDoes("brightness", step)
                              /\ led' = setBrightnessMultiplier(led, step.percentage)
                              /\ Goes(SetColorSteps(led.current_color_) \o Tail(todo))
                              /\ UNCHANGED <<controller, swVars, effects, astray>>
    BY <1>4 DEF WriteBrightness
  <2>2. todo # << >> /\ step \in Head(todo) /\ step.do = "brightness"
    BY <2>1 DEF ThreadDoes
  <2>3. step \in ThreadStep /\ Tail(todo) \in Todo
    BY <2>2, RestTyped DEF LedTypes
  <2>4. step.percentage \in Int /\ led.current_color_ \in Colors
    BY <2>2, <2>3, StepKinds DEF LedTypes, Led
  <2>5. led' \in Led
    BY <2>1, <2>4, SetBrightnessIsType DEF LedTypes
  <2>6. SetColorSteps(led.current_color_) \o Tail(todo) \in Todo
    BY <2>3, <2>4, SetColorStepsTyped, ConcatTyped
  <2> QED
    BY <2>1, <2>5, <2>6, GoesTyped DEF LedTypes, swVars, effects, EffectTime
<1> QED
  BY <1>1, <1>2, <1>3, <1>4

LEMMA CallTypes ==
  ASSUME LedTypes, Calls \/ AssertionFails
  PROVE  LedTypes'
<1>1. \A name, steps : Call(name, steps) /\ steps \in Todo /\ astray' \in BOOLEAN => LedTypes'
  BY DEF Call, LedTypes, swVars, effects, EffectTime
<1>2. CASE SetConstantBaseColor
  <2>1. PICK color \in BaseColors : Call("base", setConstantBaseColor(color))
    BY <1>2 DEF SetConstantBaseColor
  <2>2. setConstantBaseColor(color) \in Todo
    BY <2>1, CallsAssumption, OperationsTyped
  <2> QED
    BY <1>1, <1>2, <2>1, <2>2 DEF SetConstantBaseColor
<1>3. CASE FlashOverrideColor
  <2>1. PICK color \in OverrideColors, duration_ms \in FlashDurations :
          Call("flash", flashOverrideColor(color, duration_ms))
    BY <1>3 DEF FlashOverrideColor
  <2>2. flashOverrideColor(color, duration_ms) \in Todo
    BY <2>1, CallsAssumption, OperationsTyped
  <2> QED
    BY <1>1, <1>3, <2>1, <2>2 DEF FlashOverrideColor, LedTypes
<1>4. CASE StartOverrideColorBlinking
  <2>1. PICK color \in OverrideColors, duration_ms \in BlinkDurations :
          Call("blink", startOverrideColorBlinking(color, duration_ms))
    BY <1>4 DEF StartOverrideColorBlinking
  <2>2. startOverrideColorBlinking(color, duration_ms) \in Todo
    BY <2>1, CallsAssumption, OperationsTyped
  <2> QED
    BY <1>1, <1>4, <2>1, <2>2 DEF StartOverrideColorBlinking, LedTypes
<1>5. CASE StopOverrideColorBlinking
  <2>1. stopOverrideColorBlinking \in Todo
    BY NamedColors, OperationsTyped
  <2> QED
    BY <1>1, <1>5, <2>1 DEF StopOverrideColorBlinking, LedTypes
<1>6. CASE SetBrightness
  <2>1. PICK percentage \in Percentages : Call("brightness", setBrightness(percentage))
    BY <1>6 DEF SetBrightness
  <2>2. setBrightness(percentage) \in Todo
    BY <2>1, NamedColors, CallsAssumption, OperationsTyped
  <2> QED
    BY <1>1, <1>6, <2>1, <2>2 DEF SetBrightness, LedTypes
<1>7. CASE AssertionFails
  BY <1>7, AssertFailTyped DEF AssertionFails, LedTypes, effects, EffectTime
<1> QED
  BY <1>2, <1>3, <1>4, <1>5, <1>6, <1>7 DEF Calls

LEMMA LedTypesInitially == Init => LedTypes
<1> SUFFICES ASSUME Init PROVE LedTypes
  OBVIOUS
<1>1. /\ led = LedDriver /\ controller = Controller /\ todo = main /\ mode = "boots"
      /\ queued = FALSE /\ ticked = FALSE /\ astray = FALSE /\ asked = 0
  BY DEF Init
<1>2. Controller \in ControllerType /\ Controller.effect_duration_left_ms_ = 0
  BY NamedColors DEF Controller, ControllerType
<1>3. EffectTime <= asked
  BY <1>1, <1>2 DEF EffectTime
<1> QED
  BY <1>1, <1>2, <1>3, LedDriverIsType, MainTyped DEF LedTypes

LEMMA LedTypesStep ==
  ASSUME LedTypes, TimerType, [Next]_vars
  PROVE  LedTypes'
<1>1. CASE UNCHANGED vars
  BY <1>1 DEF vars, LedTypes, EffectTime
<1>2. CASE Thread
  BY <1>2, BootTypes, WriteTypes DEF Thread
<1>3. CASE Calls \/ AssertionFails
  BY <1>3, CallTypes
<1>4. CASE Tick
  BY <1>4 DEF Tick, LedTypes, swVars, EffectTime
<1>5. CASE periodicLedUpdateTimerISR
  BY <1>5, PeriodicTypes
<1>6. CASE DebugDrained
  BY <1>6 DEF DebugDrained, LedTypes, effects, EffectTime
<1> QED
  BY <1>1, <1>2, <1>3, <1>4, <1>5, <1>6 DEF Next

\* The types hold: what the thread has to do is typed, so what it writes is.
THEOREM LedTypesHold == Spec => []LedTypes
<1>1. TimerInv => TimerType
  BY DEF TimerInv
<1> QED
  BY <1>1, TimerInvHolds, LedTypesInitially, LedTypesStep, PTL DEF Spec

\* No output of the LED is driven past the top of its slice, whatever colours and
\* brightness are asked for, and no effect has more time left than was asked for.
THEOREM StatusLedTypeOK == Spec => []TypeOK
<1>1. LedTypes /\ TimerType => TypeOK
  BY DEF LedTypes, TimerType, TypeOK, Led, Slice, ControllerType, EffectTime
<1>2. TimerInv => TimerType
  BY DEF TimerInv
<1> QED
  BY <1>1, <1>2, TimerInvHolds, LedTypesHold, PTL

-----------------------------------------------------------------------------
(* Painting: the thread is on its way through setColorRGB.                 *)
Paint4(color, rest) == <<{CurrentStep(color)}>> \o rest
Paint3(color, rest) == <<{LevelStep("blue", color)}>> \o Paint4(color, rest)
Paint2(color, rest) == <<{LevelStep("green", color)}>> \o Paint3(color, rest)
Paint1(color, rest) == <<{LevelStep("red", color)}>> \o Paint2(color, rest)

\* The outputs written so far show their part, unless the interrupt wrote the
\* LED as well.
Painting(color, rest) ==
  \/ todo = Paint1(color, rest)
  \/ /\ todo = Paint2(color, rest)
     /\ ~astray => PartShows(led, "red", color)
  \/ /\ todo = Paint3(color, rest)
     /\ ~astray => PartShows(led, "red", color) /\ PartShows(led, "green", color)
  \/ /\ todo = Paint4(color, rest)
     /\ ~astray => Shows(led, color)

Painted(color) == ~astray => Shows(led, color) /\ led.current_color_ = color

LEMMA PaintParts ==
  ASSUME NEW color \in Colors, NEW rest \in Todo
  PROVE  /\ Paint1(color, rest) # << >> /\ Paint2(color, rest) # << >>
         /\ Paint3(color, rest) # << >> /\ Paint4(color, rest) # << >>
         /\ Head(Paint1(color, rest)) = {LevelStep("red", color)}
         /\ Head(Paint2(color, rest)) = {LevelStep("green", color)}
         /\ Head(Paint3(color, rest)) = {LevelStep("blue", color)}
         /\ Head(Paint4(color, rest)) = {CurrentStep(color)}
         /\ Tail(Paint1(color, rest)) = Paint2(color, rest)
         /\ Tail(Paint2(color, rest)) = Paint3(color, rest)
         /\ Tail(Paint3(color, rest)) = Paint4(color, rest)
         /\ Tail(Paint4(color, rest)) = rest
         /\ Paint1(color, rest) \in Todo
<1>1. /\ {LevelStep("red", color)} \in SUBSET ThreadStep
      /\ {LevelStep("green", color)} \in SUBSET ThreadStep
      /\ {LevelStep("blue", color)} \in SUBSET ThreadStep
      /\ {CurrentStep(color)} \in SUBSET ThreadStep
  BY SetsOfSteps, Parts
<1>2. /\ Paint4(color, rest) \in Todo /\ Paint4(color, rest) # << >>
      /\ Head(Paint4(color, rest)) = {CurrentStep(color)} /\ Tail(Paint4(color, rest)) = rest
  BY <1>1, OneMore DEF Paint4
<1>3. /\ Paint3(color, rest) \in Todo /\ Paint3(color, rest) # << >>
      /\ Head(Paint3(color, rest)) = {LevelStep("blue", color)}
      /\ Tail(Paint3(color, rest)) = Paint4(color, rest)
  BY <1>1, <1>2, OneMore DEF Paint3
<1>4. /\ Paint2(color, rest) \in Todo /\ Paint2(color, rest) # << >>
      /\ Head(Paint2(color, rest)) = {LevelStep("green", color)}
      /\ Tail(Paint2(color, rest)) = Paint3(color, rest)
  BY <1>1, <1>3, OneMore DEF Paint2
<1>5. /\ Paint1(color, rest) \in Todo /\ Paint1(color, rest) # << >>
      /\ Head(Paint1(color, rest)) = {LevelStep("red", color)}
      /\ Tail(Paint1(color, rest)) = Paint2(color, rest)
  BY <1>1, <1>4, OneMore DEF Paint1
<1> QED
  BY <1>2, <1>3, <1>4, <1>5

LEMMA OneMoreAt ==
  ASSUME NEW a \in SUBSET ThreadStep, NEW t \in Todo
  PROVE  /\ <<a>> \o t \in Todo /\ Len(<<a>> \o t) = 1 + Len(t) /\ (<<a>> \o t)[1] = a
         /\ \A i \in 1..Len(t) : (<<a>> \o t)[i + 1] = t[i]
<1>1. <<a>> \in Todo /\ Len(<<a>>) = 1 /\ <<a>>[1] = a
  BY DEF Todo
<1>2. Len(t) \in Nat
  BY DEF Todo
<1> DEFINE all == <<a>> \o t
<1>3. /\ all \in Todo /\ Len(all) = 1 + Len(t)
      /\ \A i \in 1..1 + Len(t) : all[i] = IF i <= 1 THEN <<a>>[i] ELSE t[i - 1]
  BY <1>1, ConcatProperties DEF Todo
<1> HIDE DEF all
<1>4. all[1] = a
  BY <1>1, <1>2, <1>3
<1>5. \A i \in 1..Len(t) : all[i + 1] = t[i]
  <2> SUFFICES ASSUME NEW i \in 1..Len(t) PROVE all[i + 1] = t[i]
    OBVIOUS
  <2>1. i + 1 \in 1..1 + Len(t) /\ ~(i + 1 <= 1) /\ (i + 1) - 1 = i
    BY <1>2
  <2> QED
    BY <1>3, <2>1
<1> QED
  BY <1>3, <1>4, <1>5 DEF all

LEMMA FourSteps ==
  ASSUME NEW a \in SUBSET ThreadStep, NEW b \in SUBSET ThreadStep,
         NEW c \in SUBSET ThreadStep, NEW d \in SUBSET ThreadStep
  PROVE  <<a, b, c, d>> = <<a>> \o (<<b>> \o (<<c>> \o <<d>>))
<1>1. /\ <<d>> \in Todo /\ <<c>> \in Todo /\ <<b>> \in Todo /\ <<a>> \in Todo
      /\ Len(<<d>>) = 1 /\ Len(<<c>>) = 1 /\ Len(<<b>>) = 1 /\ Len(<<a>>) = 1
      /\ <<a>>[1] = a /\ <<b>>[1] = b /\ <<c>>[1] = c /\ <<d>>[1] = d
  BY DEF Todo
<1> DEFINE cd == <<c>> \o <<d>>
           bcd == <<b>> \o cd
           abcd == <<a>> \o bcd
           four == <<a, b, c, d>>
<1>2. cd \in Todo /\ Len(cd) = 2 /\ cd[1] = c /\ cd[2] = d
  BY <1>1, ConcatProperties DEF Todo
<1> HIDE DEF cd
<1>3. bcd \in Todo /\ Len(bcd) = 3 /\ bcd[1] = b /\ bcd[2] = c /\ bcd[3] = d
  <2>1. /\ bcd \in Todo /\ Len(bcd) = 1 + Len(cd) /\ bcd[1] = b
        /\ \A i \in 1..Len(cd) : bcd[i + 1] = cd[i]
    BY <1>2, OneMoreAt
  <2> HIDE DEF bcd
  <2>2. bcd[1 + 1] = cd[1] /\ bcd[2 + 1] = cd[2]
    BY <1>2, <2>1
  <2> QED
    BY <1>2, <2>1, <2>2
<1> HIDE DEF bcd
<1>4. abcd \in Todo /\ Len(abcd) = 4 /\ abcd[1] = a /\ abcd[2] = b /\ abcd[3] = c /\ abcd[4] = d
  <2>1. /\ abcd \in Todo /\ Len(abcd) = 1 + Len(bcd) /\ abcd[1] = a
        /\ \A i \in 1..Len(bcd) : abcd[i + 1] = bcd[i]
    BY <1>3, OneMoreAt
  <2> HIDE DEF abcd
  <2>2. abcd[1 + 1] = bcd[1] /\ abcd[2 + 1] = bcd[2] /\ abcd[3 + 1] = bcd[3]
    BY <1>3, <2>1
  <2> QED
    BY <1>3, <2>1, <2>2
<1>5. four \in Todo /\ Len(four) = 4 /\ four[1] = a /\ four[2] = b /\ four[3] = c /\ four[4] = d
  BY DEF Todo
<1> HIDE DEF abcd, four
<1>6. \A i \in 1..4 : i = 1 \/ i = 2 \/ i = 3 \/ i = 4
  OBVIOUS
<1>7. \A i \in 1..Len(four) : four[i] = abcd[i]
  BY <1>4, <1>5, <1>6
<1>8. four = abcd
  BY <1>4, <1>5, <1>7, SeqEqual DEF Todo
<1> QED
  BY <1>8 DEF four, abcd, bcd, cd

LEMMA ConcatSwap ==
  ASSUME NEW s \in Todo, NEW t \in Todo, NEW u \in Todo
  PROVE  (s \o t) \o u = s \o (t \o u)
BY ConcatAssociative DEF Todo

LEMMA PaintIsSetColor ==
  ASSUME NEW color \in Colors, NEW rest \in Todo
  PROVE  SetColorSteps(color) \o rest = Paint1(color, rest)
<1> DEFINE a == {LevelStep("red", color)}
           b == {LevelStep("green", color)}
           c == {LevelStep("blue", color)}
           d == {CurrentStep(color)}
<1>1. /\ a \in SUBSET ThreadStep /\ b \in SUBSET ThreadStep
      /\ c \in SUBSET ThreadStep /\ d \in SUBSET ThreadStep
  BY SetsOfSteps, Parts
<1>2. SetColorSteps(color) = <<a, b, c, d>>
  BY DEF SetColorSteps, LevelStep, CurrentStep
<1>3. Paint1(color, rest) = <<a>> \o (<<b>> \o (<<c>> \o (<<d>> \o rest)))
  BY DEF Paint1, Paint2, Paint3, Paint4
<1> HIDE DEF a, b, c, d
<1>4. <<a>> \in Todo /\ <<b>> \in Todo /\ <<c>> \in Todo /\ <<d>> \in Todo
  BY <1>1 DEF Todo
<1>5. <<c>> \o <<d>> \in Todo
  BY <1>4, ConcatTyped
<1>6. <<b>> \o (<<c>> \o <<d>>) \in Todo
  BY <1>4, <1>5, ConcatTyped
<1>7. (<<a>> \o (<<b>> \o (<<c>> \o <<d>>))) \o rest
        = <<a>> \o ((<<b>> \o (<<c>> \o <<d>>)) \o rest)
  BY <1>4, <1>6, ConcatSwap
<1>8. (<<b>> \o (<<c>> \o <<d>>)) \o rest = <<b>> \o ((<<c>> \o <<d>>) \o rest)
  BY <1>4, <1>5, ConcatSwap
<1>9. (<<c>> \o <<d>>) \o rest = <<c>> \o (<<d>> \o rest)
  BY <1>4, ConcatSwap
<1>10. <<a, b, c, d>> = <<a>> \o (<<b>> \o (<<c>> \o <<d>>))
  BY <1>1, FourSteps
<1> QED
  BY <1>2, <1>3, <1>7, <1>8, <1>9, <1>10

-----------------------------------------------------------------------------
(* What the thread has to do says what it does.                            *)
HeadDoes(what) == todo # << >> /\ ~timer.raised /\ \E step \in Head(todo) : step.do = what

LEMMA ActionsDo ==
  /\ InitLed => HeadDoes("init_led")
  /\ TurnOn => HeadDoes("turn_on")
  /\ StartTimer => HeadDoes("start_timer")
  /\ ConnectPrint => HeadDoes("connect_print")
  /\ SetReaction => HeadDoes("set_reaction")
  /\ ConnectHandler => HeadDoes("connect_handler")
  /\ PrintMessage => HeadDoes("print")
  /\ Flush => HeadDoes("flush")
  /\ Halt => HeadDoes("halt")
  /\ WriteLevel => HeadDoes("level")
  /\ WriteCurrentColor => HeadDoes("current")
  /\ StoreField => HeadDoes("store")
  /\ WriteBrightness => HeadDoes("brightness")
<1>1. \A what : BootStep(what) => HeadDoes(what)
  <2> SUFFICES ASSUME NEW what, BootStep(what) PROVE HeadDoes(what)
    OBVIOUS
  <2>1. ~timer.raised /\ todo # << >> /\ [do |-> what] \in Head(todo)
    BY DEF BootStep, ThreadDoes
  <2>2. [do |-> what].do = what
    OBVIOUS
  <2> QED
    BY <2>1, <2>2 DEF HeadDoes
<1>2. \A what : (\E step \in Steps : ThreadDoes(what, step)) => HeadDoes(what)
  BY DEF ThreadDoes, HeadDoes
<1> QED
  BY <1>1, <1>2 DEF InitLed, TurnOn, StartTimer, ConnectPrint, SetReaction, ConnectHandler,
     PrintMessage, Flush, Halt, WriteLevel, WriteCurrentColor, StoreField, WriteBrightness

\* With one step at the head it is the one done, and the others follow.
LEMMA OnlyStep ==
  ASSUME NEW s, todo # << >>, Head(todo) = {s}
  PROVE  /\ \A what : HeadDoes(what) => what = s.do
         /\ Steps = {s} /\ Rest(s) = Tail(todo)
BY DEF HeadDoes, Steps, Rest

\* The thread's step is the one its head asks for.
LEMMA ThreadMoves ==
  ASSUME NEW s, todo # << >>, Head(todo) = {s}, Thread
  PROVE  /\ s.do = "init_led" => InitLed
         /\ s.do = "turn_on" => TurnOn
         /\ s.do = "start_timer" => StartTimer
         /\ s.do = "connect_print" => ConnectPrint
         /\ s.do = "set_reaction" => SetReaction
         /\ s.do = "connect_handler" => ConnectHandler
         /\ s.do = "print" => PrintMessage
         /\ s.do = "flush" => Flush
         /\ s.do = "halt" => Halt
         /\ s.do = "level" => WriteLevel
         /\ s.do = "current" => WriteCurrentColor
         /\ s.do = "store" => StoreField
         /\ s.do = "brightness" => WriteBrightness
<1>1. ~EnterMainLoop
  BY DEF EnterMainLoop
<1>2. \A what : HeadDoes(what) => what = s.do
  BY OnlyStep
<1> QED
  BY <1>1, <1>2, ActionsDo DEF Thread, Boot

\* The state a thread's step in setColorRGB leaves alone.
paintFrame == <<clock, timer, controller, pointers, assertions, queued, mode, asked, astray,
                operations>>

LEMMA LevelStepDoes ==
  ASSUME LedTypes, Lit(led), NEW part \in Component, NEW color \in Colors,
         todo # << >>, Head(todo) = {LevelStep(part, color)}, Thread
  PROVE  /\ UNCHANGED paintFrame /\ todo' = Tail(todo)
         /\ Lit(led') /\ PartShows(led', part, color)
         /\ led'.current_color_ = led.current_color_
         /\ \A other \in Component \ {part} :
              PartShows(led, other, color) => PartShows(led', other, color)
<1> DEFINE step == LevelStep(part, color)
<1>1. step.do = "level" /\ step.part = part /\ step.color = color
  BY DEF LevelStep
<1> HIDE DEF step
<1>2. Head(todo) = {step}
  BY DEF step
<1>3. WriteLevel /\ Steps = {step} /\ Rest(step) = Tail(todo)
  BY <1>1, <1>2, ThreadMoves, OnlyStep
<1>4. /\ led' = setLevel(led, part, color) /\ todo' = Tail(todo) /\ UNCHANGED paintFrame
  BY <1>1, <1>3 DEF WriteLevel, Goes, paintFrame, swVars, effects
<1> QED
  BY <1>4, SetLevelShows DEF LedTypes

LEMMA CurrentStepDoes ==
  ASSUME LedTypes, Lit(led), NEW color \in Colors,
         todo # << >>, Head(todo) = {CurrentStep(color)}, Thread
  PROVE  /\ UNCHANGED paintFrame /\ todo' = Tail(todo)
         /\ Lit(led') /\ led'.current_color_ = color
         /\ Shows(led, color) => Shows(led', color)
<1> DEFINE step == CurrentStep(color)
<1>1. step.do = "current" /\ step.color = color
  BY DEF CurrentStep
<1> HIDE DEF step
<1>2. Head(todo) = {step}
  BY DEF step
<1>3. WriteCurrentColor /\ Steps = {step} /\ Rest(step) = Tail(todo)
  BY <1>1, <1>2, ThreadMoves, OnlyStep
<1>4. /\ led' = setCurrentColor(led, color) /\ todo' = Tail(todo) /\ UNCHANGED paintFrame
  BY <1>1, <1>3 DEF WriteCurrentColor, Goes, paintFrame, swVars, effects
<1>5. led'.slices = led.slices /\ led'.brightness_ = led.brightness_ /\ led'.current_color_ = color
  BY <1>4, SetCurrentColorIsType DEF LedTypes
<1> QED
  BY <1>4, <1>5 DEF Lit, Shows, Duty

LEMMA PaintThread ==
  ASSUME LedTypes, Lit(led), NEW color \in Colors, NEW rest \in Todo, Painting(color, rest),
         Thread
  PROVE  /\ UNCHANGED paintFrame /\ Lit(led')
         /\ \/ Painting(color, rest)' /\ led'.current_color_ = led.current_color_
            \/ todo' = rest /\ Painted(color)'
<1>1. /\ Paint1(color, rest) # << >> /\ Head(Paint1(color, rest)) = {LevelStep("red", color)}
      /\ Tail(Paint1(color, rest)) = Paint2(color, rest)
      /\ Paint2(color, rest) # << >> /\ Head(Paint2(color, rest)) = {LevelStep("green", color)}
      /\ Tail(Paint2(color, rest)) = Paint3(color, rest)
      /\ Paint3(color, rest) # << >> /\ Head(Paint3(color, rest)) = {LevelStep("blue", color)}
      /\ Tail(Paint3(color, rest)) = Paint4(color, rest)
      /\ Paint4(color, rest) # << >> /\ Head(Paint4(color, rest)) = {CurrentStep(color)}
      /\ Tail(Paint4(color, rest)) = rest
  BY PaintParts
<1>2. "red" \in Component /\ "green" \in Component /\ "blue" \in Component
  BY Parts
<1>3. led' \in Led
  BY WriteTypes, BootTypes DEF Thread, LedTypes
<1>4. CASE todo = Paint1(color, rest)
  <2>1. UNCHANGED paintFrame /\ todo' = Paint2(color, rest) /\ Lit(led')
        /\ PartShows(led', "red", color) /\ led'.current_color_ = led.current_color_
    BY <1>1, <1>2, <1>4, LevelStepDoes
  <2> QED
    BY <2>1 DEF Painting
<1>5. CASE todo = Paint2(color, rest) /\ (~astray => PartShows(led, "red", color))
  <2>1. /\ UNCHANGED paintFrame /\ todo' = Paint3(color, rest) /\ Lit(led')
        /\ PartShows(led', "green", color) /\ led'.current_color_ = led.current_color_
        /\ PartShows(led, "red", color) => PartShows(led', "red", color)
    BY <1>1, <1>2, <1>5, LevelStepDoes
  <2> QED
    BY <1>5, <2>1 DEF Painting, paintFrame
<1>6. CASE /\ todo = Paint3(color, rest)
           /\ ~astray => PartShows(led, "red", color) /\ PartShows(led, "green", color)
  <2>1. /\ UNCHANGED paintFrame /\ todo' = Paint4(color, rest) /\ Lit(led')
        /\ PartShows(led', "blue", color) /\ led'.current_color_ = led.current_color_
        /\ PartShows(led, "red", color) => PartShows(led', "red", color)
        /\ PartShows(led, "green", color) => PartShows(led', "green", color)
    BY <1>1, <1>2, <1>6, LevelStepDoes
  <2>2. ~astray => Shows(led', color)
    BY <1>3, <1>6, <2>1, ShowsParts
  <2> QED
    BY <2>1, <2>2 DEF Painting, paintFrame
<1>7. CASE todo = Paint4(color, rest) /\ (~astray => Shows(led, color))
  <2>1. /\ UNCHANGED paintFrame /\ todo' = rest /\ Lit(led')
        /\ led'.current_color_ = color /\ (Shows(led, color) => Shows(led', color))
    BY <1>1, <1>7, CurrentStepDoes
  <2> QED
    BY <1>7, <2>1 DEF Painted, paintFrame
<1> QED
  BY <1>4, <1>5, <1>6, <1>7 DEF Painting

LEMMA PaintHead ==
  ASSUME NEW color \in Colors, NEW rest \in Todo, Painting(color, rest)
  PROVE  todo # << >> /\ \E step : Head(todo) = {step} /\ step.do \in {"level", "current"}
<1>1. /\ LevelStep("red", color).do = "level" /\ LevelStep("green", color).do = "level"
      /\ LevelStep("blue", color).do = "level" /\ CurrentStep(color).do = "current"
  BY DEF LevelStep, CurrentStep
<1>2. /\ todo # << >>
      /\ \/ Head(todo) = {LevelStep("red", color)} \/ Head(todo) = {LevelStep("green", color)}
         \/ Head(todo) = {LevelStep("blue", color)} \/ Head(todo) = {CurrentStep(color)}
  BY PaintParts DEF Painting
<1> QED
  BY <1>1, <1>2

\* The interrupt sees the painting.
LEMMA PaintIsUnderWay ==
  ASSUME NEW color \in Colors, NEW rest \in Todo, Painting(color, rest)
  PROVE  ColorUnderWay /\ todo # << >> /\ ~Waits
<1>1. /\ todo # << >>
      /\ \E step : Head(todo) = {step} /\ WritesColor(step) /\ step.do \in {"level", "current"}
  BY PaintHead DEF WritesColor
<1>2. \A step : step = [do |-> "flush"] => step.do = "flush"
  OBVIOUS
<1>3. ~Waits
  BY <1>1, <1>2 DEF Waits
<1> QED
  BY <1>1, <1>3 DEF ColorUnderWay

\* What the interrupt leaves as it is.
LEMMA InterruptKeeps ==
  ASSUME LedTypes, TimerType, periodicLedUpdateTimerISR
  PROVE  /\ UNCHANGED <<todo, assertions, mode>>
         /\ controller'.base_color_ = controller.base_color_
         /\ controller'.is_blinking_ = controller.is_blinking_
         /\ controller'.blink_duration_ms_ = controller.blink_duration_ms_
         /\ Lit(led) => Lit(led')
<1>1. /\ controller \in ControllerType /\ led \in Led
      /\ UNCHANGED <<todo, assertions, mode>>
      /\ InterruptCounts \/ \E color \in Colors : InterruptPaints(color)
  BY InterruptCases, DeltaIsNat DEF LedTypes
<1>2. Lit(led) => Lit(led')
  BY <1>1, SetColorShows DEF InterruptCounts, InterruptPaints
<1> QED
  BY <1>1, <1>2 DEF InterruptCounts, InterruptPaints, CountsDown, Toggles, Finishes, ControllerType

LEMMA InterruptUnderWay ==
  ASSUME LedTypes, TimerType, periodicLedUpdateTimerISR, ColorUnderWay
  PROVE  astray' \/ (led' = led /\ astray' = astray /\ (EffectTime' = 0 => EffectTime = 0))
<1>1. /\ controller \in ControllerType
      /\ InterruptCounts \/ \E color \in Colors : InterruptPaints(color)
  BY InterruptCases, DeltaIsNat DEF LedTypes
<1>2. CASE InterruptCounts
  BY <1>1, <1>2, DeltaIsNat DEF InterruptCounts, CountsDown, ControllerType, EffectTime
<1>3. CASE \E color \in Colors : InterruptPaints(color)
  BY <1>3 DEF InterruptPaints
<1> QED
  BY <1>1, <1>2, <1>3

LEMMA PaintInterrupted ==
  ASSUME LedTypes, TimerType, NEW color \in Colors, NEW rest \in Todo, Painting(color, rest),
         periodicLedUpdateTimerISR
  PROVE  Painting(color, rest)'
<1>1. ColorUnderWay
  BY PaintIsUnderWay
<1>2. astray' \/ (led' = led /\ astray' = astray)
  BY <1>1, InterruptUnderWay
<1>3. todo' = todo
  BY InterruptKeeps
<1> QED
  BY <1>2, <1>3 DEF Painting

-----------------------------------------------------------------------------
(* What is left of a boot and of a failed assertion.                        *)

\* What is left of the boot.
BootDone     == Do("print")
BootStore    == <<{Store("base_color_", K_YELLOW)}>> \o BootDone
BootYellow   == Paint1(K_YELLOW, BootStore)
BootPrint    == Do("print") \o BootYellow
BootHandler  == Do("connect_handler") \o BootPrint
BootReaction == Do("set_reaction") \o BootHandler
BootConnect  == Do("connect_print") \o BootReaction
BootTimer    == Do("start_timer") \o BootConnect
BootBright   == <<{BrightnessStep(5)}>> \o BootTimer
BootOn       == Do("turn_on") \o BootBright
BootInit     == Do("init_led") \o BootOn

\* What is left once an assertion failed, without and with a handler.
FailHalt       == Do("halt")
FailFlush      == Do("flush") \o FailHalt
FailPrint      == Do("print") \o FailFlush
RedStore(rest) == <<{Store("base_color_", K_RED)}>> \o rest
RedFlush       == Do("flush") \o Paint1(K_RED, RedStore(FailHalt))
RedPrint       == Do("print") \o RedFlush

LEMMA PlainMore ==
  ASSUME NEW what \in Plain, NEW rest \in Todo
  PROVE  /\ Do(what) \o rest \in Todo /\ Do(what) \o rest # << >>
         /\ Head(Do(what) \o rest) = {[do |-> what]} /\ Tail(Do(what) \o rest) = rest
BY SetsOfSteps, OneMore DEF Do

LEMMA PlainAlone ==
  ASSUME NEW what \in Plain
  PROVE  /\ Do(what) \in Todo /\ Do(what) # << >>
         /\ Head(Do(what)) = {[do |-> what]} /\ Tail(Do(what)) = << >>
<1>1. Do(what) \in Todo
  BY DoTyped
<1> QED
  BY <1>1 DEF Do, Todo

LEMMA StoreMore ==
  ASSUME NEW color \in Colors, NEW rest \in Todo
  PROVE  LET all == <<{Store("base_color_", color)}>> \o rest
         IN  /\ all \in Todo /\ all # << >>
             /\ Head(all) = {Store("base_color_", color)} /\ Tail(all) = rest
<1>1. {Store("base_color_", color)} \in SUBSET ThreadStep
  BY Stores, SetsOfSteps
<1> QED
  BY <1>1, OneMore

LEMMA BootParts ==
  /\ BootDone \in Todo /\ BootDone # << >>
  /\ Head(BootDone) = {[do |-> "print"]} /\ Tail(BootDone) = << >>
  /\ BootStore \in Todo /\ BootStore # << >>
  /\ Head(BootStore) = {Store("base_color_", K_YELLOW)} /\ Tail(BootStore) = BootDone
  /\ BootYellow \in Todo
  /\ BootPrint \in Todo /\ BootPrint # << >>
  /\ Head(BootPrint) = {[do |-> "print"]} /\ Tail(BootPrint) = BootYellow
  /\ BootHandler \in Todo /\ BootHandler # << >>
  /\ Head(BootHandler) = {[do |-> "connect_handler"]} /\ Tail(BootHandler) = BootPrint
  /\ BootReaction \in Todo /\ BootReaction # << >>
  /\ Head(BootReaction) = {[do |-> "set_reaction"]} /\ Tail(BootReaction) = BootHandler
  /\ BootConnect \in Todo /\ BootConnect # << >>
  /\ Head(BootConnect) = {[do |-> "connect_print"]} /\ Tail(BootConnect) = BootReaction
  /\ BootTimer \in Todo /\ BootTimer # << >>
  /\ Head(BootTimer) = {[do |-> "start_timer"]} /\ Tail(BootTimer) = BootConnect
  /\ BootBright \in Todo /\ BootBright # << >>
  /\ Head(BootBright) = {BrightnessStep(5)} /\ Tail(BootBright) = BootTimer
  /\ BootOn \in Todo /\ BootOn # << >>
  /\ Head(BootOn) = {[do |-> "turn_on"]} /\ Tail(BootOn) = BootBright
  /\ BootInit \in Todo /\ BootInit # << >>
  /\ Head(BootInit) = {[do |-> "init_led"]} /\ Tail(BootInit) = BootOn
<1>1. /\ BootDone \in Todo /\ BootDone # << >>
      /\ Head(BootDone) = {[do |-> "print"]} /\ Tail(BootDone) = << >>
  BY PlainAlone DEF BootDone, Plain
<1>2. /\ BootStore \in Todo /\ BootStore # << >>
      /\ Head(BootStore) = {Store("base_color_", K_YELLOW)} /\ Tail(BootStore) = BootDone
  BY <1>1, StoreMore, NamedColors DEF BootStore
<1>3. BootYellow \in Todo
  BY <1>2, PaintParts, NamedColors DEF BootYellow
<1>4. /\ BootPrint \in Todo /\ BootPrint # << >>
      /\ Head(BootPrint) = {[do |-> "print"]} /\ Tail(BootPrint) = BootYellow
  BY <1>3, PlainMore DEF BootPrint, Plain
<1>5. /\ BootHandler \in Todo /\ BootHandler # << >>
      /\ Head(BootHandler) = {[do |-> "connect_handler"]} /\ Tail(BootHandler) = BootPrint
  BY <1>4, PlainMore DEF BootHandler, Plain
<1>6. /\ BootReaction \in Todo /\ BootReaction # << >>
      /\ Head(BootReaction) = {[do |-> "set_reaction"]} /\ Tail(BootReaction) = BootHandler
  BY <1>5, PlainMore DEF BootReaction, Plain
<1>7. /\ BootConnect \in Todo /\ BootConnect # << >>
      /\ Head(BootConnect) = {[do |-> "connect_print"]} /\ Tail(BootConnect) = BootReaction
  BY <1>6, PlainMore DEF BootConnect, Plain
<1>8. /\ BootTimer \in Todo /\ BootTimer # << >>
      /\ Head(BootTimer) = {[do |-> "start_timer"]} /\ Tail(BootTimer) = BootConnect
  BY <1>7, PlainMore DEF BootTimer, Plain
<1>9. /\ BootBright \in Todo /\ BootBright # << >>
      /\ Head(BootBright) = {BrightnessStep(5)} /\ Tail(BootBright) = BootTimer
  BY <1>8, OneMore, SetsOfSteps DEF BootBright
<1>10. /\ BootOn \in Todo /\ BootOn # << >>
       /\ Head(BootOn) = {[do |-> "turn_on"]} /\ Tail(BootOn) = BootBright
  BY <1>9, PlainMore DEF BootOn, Plain
<1>11. /\ BootInit \in Todo /\ BootInit # << >>
       /\ Head(BootInit) = {[do |-> "init_led"]} /\ Tail(BootInit) = BootOn
  BY <1>10, PlainMore DEF BootInit, Plain
<1> QED
  BY <1>1, <1>2, <1>3, <1>4, <1>5, <1>6, <1>7, <1>8, <1>9, <1>10, <1>11

\* The concatenation of what the thread has to do.
Then(s, t) == s \o t

LEMMA ThenTyped ==
  ASSUME NEW s \in Todo, NEW t \in Todo
  PROVE  Then(s, t) \in Todo
BY ConcatTyped DEF Then

LEMMA ThenSwap ==
  ASSUME NEW s \in Todo, NEW t \in Todo, NEW u \in Todo
  PROVE  Then(Then(s, t), u) = Then(s, Then(t, u))
BY ConcatSwap DEF Then

LEMMA RegroupThree ==
  ASSUME NEW a \in Todo, NEW b \in Todo, NEW c \in Todo, NEW rest \in Todo
  PROVE  Then(Then(Then(a, b), c), rest) = Then(a, Then(b, Then(c, rest)))
<1>1. Then(a, b) \in Todo /\ Then(c, rest) \in Todo
  BY ThenTyped
<1>2. Then(Then(Then(a, b), c), rest) = Then(Then(a, b), Then(c, rest))
  BY <1>1, ThenSwap
<1>3. Then(Then(a, b), Then(c, rest)) = Then(a, Then(b, Then(c, rest)))
  BY <1>1, ThenSwap
<1> QED
  BY <1>2, <1>3

LEMMA RegroupFour ==
  ASSUME NEW a \in Todo, NEW b \in Todo, NEW c \in Todo, NEW d \in Todo, NEW rest \in Todo
  PROVE  Then(Then(Then(Then(a, b), c), d), rest)
           = Then(a, Then(b, Then(c, Then(d, rest))))
<1>1. Then(a, b) \in Todo /\ Then(d, rest) \in Todo
  BY ThenTyped
<1>2. Then(c, Then(d, rest)) \in Todo
  BY <1>1, ThenTyped
<1>3. Then(Then(Then(Then(a, b), c), d), rest) = Then(Then(a, b), Then(c, Then(d, rest)))
  BY <1>1, RegroupThree
<1>4. Then(Then(a, b), Then(c, Then(d, rest))) = Then(a, Then(b, Then(c, Then(d, rest))))
  BY <1>2, ThenSwap
<1> QED
  BY <1>3, <1>4

LEMMA MainIsBoot == main = BootInit
<1> DEFINE i == Do("init_led")
           o == Do("turn_on")
           b == setBrightness(5)
           t == Do("start_timer")
           c == Do("connect_print")
           r == Do("set_reaction")
           h == Do("connect_handler")
           p == Do("print")
           y == setConstantBaseColor(K_YELLOW)
           st == <<{Store("base_color_", K_YELLOW)}>>
           sc == SetColorSteps(K_YELLOW)
           hw == Then(Then(Then(i, o), b), t)
           sw == Then(Then(c, r), h)
           end == Then(p, BootYellow)
           tail == Then(c, Then(r, Then(h, end)))
<1>1. /\ i \in Todo /\ o \in Todo /\ t \in Todo /\ c \in Todo /\ r \in Todo /\ h \in Todo
      /\ p \in Todo
  BY DoTyped DEF Plain
<1>2. b \in Todo /\ y \in Todo /\ BootYellow \in Todo
  BY NamedColors, OperationsTyped, BootParts
<1>3. sc \in Todo /\ st \in Todo
  <2>1. {Store("base_color_", K_YELLOW)} \in SUBSET ThreadStep
    BY Stores, SetsOfSteps, NamedColors
  <2> QED
    BY <2>1, SetColorStepsTyped, NamedColors DEF Todo
<1>4. y = Then(sc, st)
  BY DEF setConstantBaseColor, Then
<1>5. BootStore = Then(st, p) /\ BootYellow = Paint1(K_YELLOW, BootStore)
  BY DEF BootStore, BootDone, BootYellow, Then
<1>6. b = <<{BrightnessStep(5)}>>
  BY DEF setBrightness, BrightnessStep
<1>7. BootInit = Then(i, Then(o, Then(b, Then(t, tail))))
  BY <1>6 DEF BootInit, BootOn, BootBright, BootTimer, BootConnect, BootReaction,
              BootHandler, BootPrint, Then
<1>8. main = Then(Then(Then(Then(hw, sw), p), y), p)
  BY DEF main, initHW, initSWLibs, Then
<1>9. Then(sc, BootStore) = BootYellow
  BY <1>5, PaintIsSetColor, BootParts, NamedColors DEF Then
<1> HIDE DEF i, o, b, t, c, r, h, p, y, st, sc
<1>10. Then(y, p) = BootYellow
  BY <1>1, <1>3, <1>4, <1>5, <1>9, ThenSwap
<1>11. Then(i, o) \in Todo /\ Then(c, r) \in Todo /\ end \in Todo
  BY <1>1, <1>2, ThenTyped
<1>12. Then(Then(i, o), b) \in Todo /\ sw \in Todo
  BY <1>1, <1>2, <1>11, ThenTyped
<1>13. hw \in Todo
  BY <1>1, <1>12, ThenTyped
<1> HIDE DEF end
<1>14. Then(h, end) \in Todo
  BY <1>1, <1>11, ThenTyped
<1>15. Then(r, Then(h, end)) \in Todo
  BY <1>1, <1>14, ThenTyped
<1>16. tail \in Todo
  BY <1>1, <1>15, ThenTyped
<1>17. Then(sw, end) = tail
  BY <1>1, <1>11, RegroupThree
<1> HIDE DEF tail
<1>18. Then(hw, tail) = Then(i, Then(o, Then(b, Then(t, tail))))
  BY <1>1, <1>2, <1>16, RegroupFour
<1> HIDE DEF hw, sw
<1>19. Then(Then(hw, sw), p) \in Todo /\ Then(hw, sw) \in Todo
  <2>1. Then(hw, sw) \in Todo
    BY <1>12, <1>13, ThenTyped
  <2> QED
    BY <1>1, <2>1, ThenTyped
<1>20. Then(Then(Then(Then(hw, sw), p), y), p) = Then(Then(Then(hw, sw), p), BootYellow)
  BY <1>1, <1>2, <1>10, <1>19, ThenSwap
<1>21. Then(Then(Then(hw, sw), p), BootYellow) = Then(Then(hw, sw), end)
  BY <1>1, <1>2, <1>19, ThenSwap DEF end
<1>22. Then(Then(hw, sw), end) = Then(hw, Then(sw, end))
  BY <1>11, <1>12, <1>13, ThenSwap
<1> QED
  BY <1>7, <1>8, <1>17, <1>18, <1>20, <1>21, <1>22

-----------------------------------------------------------------------------
(* Where the thread is, and what holds there.                              *)

\* No blink is as short as the period of the updates.
BlinksOutlastUpdates == \A duration_ms \in BlinkDurations : duration_ms > UpdatePeriod_ms

CurrentIsBase ==
  EffectTime = 0 => led.current_color_ = controller.base_color_

\* The LED shows the colour it was given last, the base colour without an effect.
Settled ==
  BlinksOutlastUpdates /\ ~astray => Shows(led, led.current_color_) /\ CurrentIsBase

\* A controller that blinks has time left, and a half of a blink has a time.
Blinking ==
  BlinksOutlastUpdates /\ controller.is_blinking_
    => controller.blink_duration_ms_ > 0 /\ EffectTime > 0

HandlerFits ==
  /\ assertions \in [handler : {nullptr, "onAssertionFailed"},
                     reaction : {break_point, call_assertion_handler_and_break_point}]
  /\ assertions.handler # nullptr
       => assertions.reaction = call_assertion_handler_and_break_point /\ Lit(led)

InBoots ==
  /\ EffectTime = 0 /\ ~controller.is_blinking_
  /\ \/ todo \in {BootInit, BootOn} /\ assertions.handler = nullptr
     \/ /\ Lit(led)
        /\ \/ todo \in {BootBright, BootTimer, BootConnect, BootReaction, BootPrint}
           \/ todo = BootHandler /\ assertions.reaction = call_assertion_handler_and_break_point
           \/ \E color \in Colors : Painting(color, BootTimer)
           \/ Painting(K_YELLOW, BootStore)
           \/ todo = BootStore /\ Painted(K_YELLOW)
           \/ todo \in {BootDone, << >>} /\ Painted(K_YELLOW) /\ controller.base_color_ = K_YELLOW

Idle == todo = << >> /\ Settled /\ Blinking

Basing ==
  /\ Blinking
  /\ \E color \in Colors :
       LET rest == <<{Store("base_color_", color)}>>
       IN  Painting(color, rest) \/ (todo = rest /\ Painted(color))

Flashing ==
  /\ Blinking
  /\ \E color \in Colors, duration_ms \in FlashDurations :
       LET rest == <<{Store("effect_duration_left_ms_", duration_ms)}>>
       IN  Painting(color, rest) \/ (todo = rest /\ Painted(color))

Dimming ==
  /\ Blinking
  /\ \/ Settled /\ \E percentage \in Percentages : todo = setBrightness(percentage)
     \/ /\ BlinksOutlastUpdates /\ ~astray => CurrentIsBase
        /\ \E color \in Colors :
             /\ Painting(color, << >>)
             /\ BlinksOutlastUpdates /\ ~astray => led.current_color_ = color

\* The effect's time, once stored, does not run out before the last store.
Lasts ==
  \/ EffectTime > UpdatePeriod_ms
  \/ EffectTime > 0 /\ ~timer.raised /\ ticked

StartingBlink ==
  /\ Settled
  /\ timer.raised => ticked
  /\ \E color \in OverrideColors, duration_ms \in BlinkDurations, left \in SUBSET StoreStep :
       LET time == Store("effect_duration_left_ms_", duration_ms)
           half == Store("blink_duration_ms_", duration_ms)
       IN  /\ left # {} /\ todo = <<left>>
           /\ left \subseteq {Store("override_color_", color), time, half,
                              Store("is_blinking_", TRUE)}
           /\ half \notin left => controller.blink_duration_ms_ > 0
           /\ time \notin left /\ BlinksOutlastUpdates => Lasts

StoppingBlink ==
  /\ Settled
  /\ \E left \in SUBSET StoreStep :
       LET flag == Store("is_blinking_", FALSE)
           time == Store("effect_duration_left_ms_", 0)
       IN  /\ left # {} /\ todo = <<left>> /\ left \subseteq {flag, time}
           /\ flag \notin left => ~controller.is_blinking_
           /\ time \notin left => EffectTime = 0

InRuns ==
  /\ Lit(led)
  /\ Idle \/ Basing \/ Flashing \/ Dimming \/ StartingBlink \/ StoppingBlink

\* The handler has made red the base colour.
RedSet ==
  /\ controller.base_color_ = K_RED
  /\ ~controller.is_blinking_ /\ ~astray => Shows(led, K_RED)

Reddening(rest) ==
  \/ Painting(K_RED, RedStore(rest))
  \/ todo = RedStore(rest) /\ Painted(K_RED)
  \/ todo = rest /\ RedSet

InFails ==
  \/ assertions.handler = nullptr /\ todo \in {FailPrint, FailFlush, FailHalt}
  \/ /\ Lit(led)
     /\ todo \in {RedPrint, RedFlush} \/ Reddening(FailFlush) \/ Reddening(FailHalt)

PlaceInv ==
  /\ HandlerFits
  /\ mode = "boots"  => InBoots
  /\ mode = "runs"   => InRuns
  /\ mode = "fails"  => InFails /\ Blinking
  /\ mode = "halted" => todo = << >> /\ Blinking /\ (assertions.handler # nullptr => RedSet)

-----------------------------------------------------------------------------
(* Steps that leave the place as it is.                                    *)
placeVars == <<led, controller, todo, assertions, mode, astray>>

LEMMA PlaceStays ==
  ASSUME UNCHANGED placeVars
  PROVE  /\ HandlerFits => HandlerFits'
         /\ InBoots => InBoots'
         /\ Idle => Idle'
         /\ Basing => Basing'
         /\ Flashing => Flashing'
         /\ Dimming => Dimming'
         /\ StoppingBlink => StoppingBlink'
         /\ Settled => Settled'
         /\ InFails => InFails'
         /\ RedSet => RedSet'
<1> USE DEF placeVars
<1>1. /\ \A color \in Colors : \A rest : Painting(color, rest) => Painting(color, rest)'
      /\ \A color : Painted(color) => Painted(color)'
  BY DEF Painting, Painted
<1>2. /\ Settled => Settled'
      /\ Blinking => Blinking'
      /\ CurrentIsBase => CurrentIsBase'
      /\ RedSet => RedSet'
  BY DEF Settled, Blinking, CurrentIsBase, RedSet, EffectTime
<1>3. HandlerFits => HandlerFits'
  BY DEF HandlerFits
<1>4. InBoots => InBoots'
  BY <1>1, NamedColors DEF InBoots, EffectTime
<1>5. /\ Idle => Idle'
      /\ Basing => Basing'
      /\ Flashing => Flashing'
  BY <1>1, <1>2 DEF Idle, Basing, Flashing
<1>6. Dimming => Dimming'
  BY <1>1, <1>2 DEF Dimming, setBrightness
<1>7. StoppingBlink => StoppingBlink'
  <2> SUFFICES ASSUME StoppingBlink PROVE StoppingBlink'
    OBVIOUS
  <2> DEFINE flag == Store("is_blinking_", FALSE)
             time == Store("effect_duration_left_ms_", 0)
  <2>1. PICK left \in SUBSET StoreStep :
          /\ left # {} /\ todo = <<left>> /\ left \subseteq {flag, time}
          /\ flag \notin left => ~controller.is_blinking_
          /\ time \notin left => EffectTime = 0
    BY DEF StoppingBlink
  <2>2. /\ todo' = <<left>>
        /\ flag \notin left => ~controller'.is_blinking_
        /\ time \notin left => EffectTime' = 0
    BY <2>1 DEF EffectTime
  <2> QED
    BY <1>2, <2>1, <2>2 DEF StoppingBlink
<1>8. InFails => InFails'
  BY <1>1, <1>2, NamedColors DEF InFails, Reddening
<1> QED
  BY <1>2, <1>3, <1>4, <1>5, <1>6, <1>7, <1>8

\* The only step that turns the LED off is its initialisation.
LEMMA LitStays ==
  ASSUME LedTypes, TimerType, Lit(led), [Next]_vars, ~InitLed
  PROVE  Lit(led')
<1>1. CASE UNCHANGED led
  BY <1>1
<1>2. CASE TurnOn
  BY <1>2, TurnOnIsType DEF TurnOn, LedTypes
<1>3. CASE WriteLevel
  <2>1. PICK step \in Steps : ThreadDoes("level", step) /\ led' = setLevel(led, step.part, step.color)
    BY <1>3 DEF WriteLevel
  <2>2. step.part \in Component /\ step.color \in Colors
    BY <2>1, RestTyped, StepKinds DEF ThreadDoes, LedTypes
  <2> QED
    BY <2>1, <2>2, SetLevelShows DEF LedTypes
<1>4. CASE WriteCurrentColor
  <2>1. PICK step \in Steps : ThreadDoes("current", step) /\ led' = setCurrentColor(led, step.color)
    BY <1>4 DEF WriteCurrentColor
  <2>2. step.color \in Colors
    BY <2>1, RestTyped, StepKinds DEF ThreadDoes, LedTypes
  <2>3. led'.slices = led.slices
    BY <2>1, <2>2, SetCurrentColorIsType DEF LedTypes
  <2> QED
    BY <2>3 DEF Lit
<1>5. CASE WriteBrightness
  <2>1. PICK step \in Steps : /\ ThreadDoes("brightness", step)
                              /\ led' = setBrightnessMultiplier(led, step.percentage)
    BY <1>5 DEF WriteBrightness
  <2>2. step.percentage \in Int
    BY <2>1, RestTyped, StepKinds DEF ThreadDoes, LedTypes
  <2>3. led'.slices = led.slices
    BY <2>1, <2>2, SetBrightnessIsType DEF LedTypes
  <2> QED
    BY <2>3 DEF Lit
<1>6. CASE periodicLedUpdateTimerISR
  BY <1>6, InterruptKeeps
<1>7. CASE Calls \/ AssertionFails
  BY <1>1, <1>7 DEF Calls, SetConstantBaseColor, FlashOverrideColor, StartOverrideColorBlinking,
     StopOverrideColorBlinking, SetBrightness, Call, AssertionFails
<1>8. CASE StartTimer \/ ConnectPrint \/ SetReaction \/ ConnectHandler \/ EnterMainLoop
           \/ StoreField \/ PrintMessage \/ Flush \/ Halt
  BY <1>1, <1>8 DEF StartTimer, ConnectPrint, SetReaction, ConnectHandler, EnterMainLoop,
     StoreField, PrintMessage, Flush, Halt
<1>9. CASE Tick \/ DebugDrained
  BY <1>1, <1>9 DEF Tick, DebugDrained
<1> QED
  BY <1>1, <1>2, <1>3, <1>4, <1>5, <1>6, <1>7, <1>8, <1>9 DEF Next, Thread, Boot, vars

\* Only the boot sets what a failed assertion does.
LEMMA AssertionsStay ==
  ASSUME LedTypes, TimerType, [Next]_vars, ~SetReaction, ~ConnectHandler
  PROVE  assertions' = assertions
<1>1. CASE Thread
  BY <1>1 DEF Thread, Boot, InitLed, TurnOn, StartTimer, ConnectPrint, EnterMainLoop, WriteLevel,
     WriteCurrentColor, StoreField, WriteBrightness, PrintMessage, Flush, Halt, swVars
<1>2. CASE Calls \/ AssertionFails
  BY <1>2 DEF Calls, SetConstantBaseColor, FlashOverrideColor, StartOverrideColorBlinking,
     StopOverrideColorBlinking, SetBrightness, Call, AssertionFails, swVars
<1>3. CASE Tick \/ DebugDrained \/ periodicLedUpdateTimerISR
  BY <1>3 DEF Tick, DebugDrained, periodicLedUpdateTimerISR, swVars
<1> QED
  BY <1>1, <1>2, <1>3 DEF Next, vars

LEMMA HandlerStays ==
  ASSUME LedTypes, TimerType, HandlerFits, [Next]_vars,
         InitLed => assertions.handler = nullptr,
         ConnectHandler =>
           Lit(led) /\ assertions.reaction = call_assertion_handler_and_break_point
  PROVE  HandlerFits'
<1>1. CASE InitLed
  BY <1>1 DEF HandlerFits, InitLed, swVars
<1>2. CASE SetReaction
  <2>1. /\ assertions'.reaction = call_assertion_handler_and_break_point
        /\ assertions'.handler = assertions.handler
        /\ assertions' \in [handler : {nullptr, "onAssertionFailed"},
                            reaction : {break_point, call_assertion_handler_and_break_point}]
        /\ led' = led
    BY <1>2 DEF SetReaction, setAssertionFailedReaction, HandlerFits
  <2> QED
    BY <2>1 DEF HandlerFits
<1>3. CASE ConnectHandler
  <2>1. /\ assertions'.reaction = assertions.reaction
        /\ assertions' \in [handler : {nullptr, "onAssertionFailed"},
                            reaction : {break_point, call_assertion_handler_and_break_point}]
        /\ led' = led
    BY <1>3 DEF ConnectHandler, connectAssertionFailedHandler, HandlerFits
  <2> QED
    BY <1>3, <2>1 DEF HandlerFits
<1>4. CASE ~InitLed /\ ~SetReaction /\ ~ConnectHandler
  <2>1. assertions' = assertions
    BY <1>4, AssertionsStay
  <2>2. Lit(led) => Lit(led')
    BY <1>4, LitStays
  <2> QED
    BY <2>1, <2>2 DEF HandlerFits
<1> QED
  BY <1>1, <1>2, <1>3, <1>4

-----------------------------------------------------------------------------
(* The interrupt.                                                          *)

\* However late, by less than a millisecond, it counts the period.
LEMMA DeltaIsPeriod ==
  ASSUME TimerInv, timer.raised
  PROVE  Delta = UpdatePeriod_ms
<1>1. Late \in Nat /\ Late < 1000 /\ Elapsed = UpdatePeriod_ms * 1000 + Late
  BY ElapsedWhenRaised, StatusLedAssumption DEF Period
<1>2. \A n, m \in Nat : m < 1000 => (n * 1000 + m) \div 1000 = n
  OBVIOUS
<1> QED
  BY <1>1, <1>2, StatusLedAssumption DEF Delta, getElapsedMilliseconds, getElapsedMicroseconds, Elapsed

Counted ==
  /\ led' = led /\ astray' = astray
  /\ EffectTime' = 0 <=> EffectTime = 0
  /\ EffectTime > UpdatePeriod_ms => EffectTime' > 0

Repainted ==
  /\ astray' = ColorUnderWay
  /\ Lit(led) => Shows(led', led'.current_color_)
  /\ EffectTime > 0 /\ EffectTime <= UpdatePeriod_ms
  /\ IF controller.is_blinking_ THEN EffectTime' = controller.blink_duration_ms_
     ELSE EffectTime' = 0 /\ led'.current_color_ = controller.base_color_

LEMMA InterruptDoes ==
  ASSUME LedTypes, TimerInv, periodicLedUpdateTimerISR
  PROVE  /\ UNCHANGED <<todo, assertions, mode, ticked>>
         /\ controller'.base_color_ = controller.base_color_
         /\ controller'.is_blinking_ = controller.is_blinking_
         /\ controller'.blink_duration_ms_ = controller.blink_duration_ms_
         /\ Lit(led) => Lit(led')
         /\ timer.raised /\ ~timer'.raised
         /\ Counted \/ Repainted
<1>1. TimerType
  BY DEF TimerInv
<1>2. /\ controller \in ControllerType /\ led \in Led /\ timer.raised
      /\ UNCHANGED <<todo, assertions, mode, ticked>>
      /\ InterruptCounts \/ \E color \in Colors : InterruptPaints(color)
  BY <1>1, InterruptCases, DeltaIsNat DEF LedTypes
<1>3. ~timer'.raised
  <2>1. timer' = restart(timer, clock)
    BY DEF periodicLedUpdateTimerISR
  <2> QED
    BY <1>1, <2>1 DEF restart, SetAlarm, TimerType
<1>4. Delta = UpdatePeriod_ms /\ UpdatePeriod_ms \in Nat \ {0}
  BY <1>2, DeltaIsPeriod, StatusLedAssumption
<1>5. ASSUME InterruptCounts PROVE Counted
  BY <1>2, <1>4, <1>5 DEF InterruptCounts, CountsDown, Counted, ControllerType, EffectTime
<1>6. ASSUME NEW color \in Colors, InterruptPaints(color) PROVE Repainted
  <2>1. led'.current_color_ = color /\ (Lit(led) => Shows(led', color))
    BY <1>2, <1>6, SetColorShows DEF InterruptPaints
  <2> QED
    BY <1>2, <1>4, <1>6, <2>1
       DEF InterruptPaints, Toggles, Finishes, Repainted, ControllerType, EffectTime
<1> QED
  BY <1>1, <1>2, <1>3, <1>5, <1>6, InterruptKeeps

LEMMA BlinkingStays ==
  ASSUME LedTypes, TimerInv, periodicLedUpdateTimerISR, Blinking
  PROVE  Blinking'
<1>1. EffectTime \in Nat /\ EffectTime' \in Nat
  BY InterruptCases, DeltaIsNat DEF LedTypes, TimerInv, ControllerType, EffectTime
<1> QED
  <2> SUFFICES ASSUME BlinksOutlastUpdates, controller'.is_blinking_
               PROVE  controller'.blink_duration_ms_ > 0 /\ EffectTime' > 0
    BY DEF Blinking
  <2>1. controller.is_blinking_
    BY InterruptDoes
  <2>2. controller.blink_duration_ms_ > 0 /\ EffectTime > 0
    BY <2>1 DEF Blinking
  <2> QED
    BY <1>1, <2>1, <2>2, InterruptDoes DEF Counted, Repainted

LEMMA SettledStays ==
  ASSUME LedTypes, TimerInv, periodicLedUpdateTimerISR, Lit(led), Settled, Blinking \/ ColorUnderWay
  PROVE  Settled'
BY InterruptDoes DEF Settled, CurrentIsBase, Blinking, Counted, Repainted

-----------------------------------------------------------------------------
(* The boot.                                                               *)

\* An interrupt without an effect changes nothing here.
LEMMA IdleInterrupt ==
  ASSUME LedTypes, TimerInv, periodicLedUpdateTimerISR, EffectTime = 0
  PROVE  UNCHANGED placeVars /\ ~timer'.raised
<1>1. /\ controller \in ControllerType /\ ~timer'.raised /\ UNCHANGED <<todo, assertions, mode>>
      /\ InterruptCounts \/ \E color \in Colors : InterruptPaints(color)
  BY InterruptDoes, InterruptCases, DeltaIsNat DEF LedTypes, TimerInv
<1>2. controller.effect_duration_left_ms_ = 0
  BY DEF EffectTime
<1>3. InterruptCounts
  BY <1>1, <1>2 DEF InterruptPaints, Toggles, Finishes
<1>4. controller' = controller
  BY <1>1, <1>2, <1>3 DEF InterruptCounts, CountsDown, ControllerType
<1> QED
  BY <1>1, <1>3, <1>4 DEF InterruptCounts, placeVars

LEMMA NoSetup ==
  ASSUME NEW s, todo # << >>, Head(todo) = {s}
  PROVE  /\ s.do # "init_led" => ~InitLed
         /\ s.do # "connect_handler" => ~ConnectHandler
BY OnlyStep, ActionsDo

placeVarsRest == <<led, controller, todo, assertions, astray>>

\* What a plain step of the boot leaves as it is.
LEMMA PlainMoves ==
  ASSUME LedTypes, NEW what \in Plain \ {"init_led", "turn_on", "halt"},
         todo # << >>, Head(todo) = {[do |-> what]}, Thread
  PROVE  /\ todo' = Tail(todo) /\ UNCHANGED <<led, controller, mode, astray>>
         /\ what \notin {"set_reaction", "connect_handler"} => assertions' = assertions
<1> DEFINE s == [do |-> what]
<1>1. s.do = what
  OBVIOUS
<1> HIDE DEF s
<1>2. Head(todo) = {s}
  BY DEF s
<1>3. \/ what = "start_timer" /\ StartTimer
      \/ what = "connect_print" /\ ConnectPrint
      \/ what = "set_reaction" /\ SetReaction
      \/ what = "connect_handler" /\ ConnectHandler
      \/ what = "print" /\ PrintMessage
      \/ what = "flush" /\ Flush
  <2>1. what \in {"start_timer", "connect_print", "set_reaction", "connect_handler", "print",
                  "flush"}
    BY DEF Plain
  <2>2. /\ s.do = "start_timer" => StartTimer
        /\ s.do = "connect_print" => ConnectPrint
        /\ s.do = "set_reaction" => SetReaction
        /\ s.do = "connect_handler" => ConnectHandler
        /\ s.do = "print" => PrintMessage
        /\ s.do = "flush" => Flush
    BY <1>2, ThreadMoves
  <2> QED
    BY <1>1, <2>1, <2>2
<1> QED
  BY <1>3 DEF StartTimer, ConnectPrint, SetReaction, ConnectHandler, PrintMessage, Flush,
              BootStep, Goes, swVars

\* The places of the boot before its last print.
LEMMA BootsStart ==
  ASSUME LedTypes, TimerInv, HandlerFits, mode = "boots", Thread,
         EffectTime = 0 /\ ~controller.is_blinking_,
         \/ todo \in {BootInit, BootOn} /\ assertions.handler = nullptr
         \/ todo = BootBright /\ Lit(led)
  PROVE  HandlerFits' /\ mode' = "boots" /\ InBoots'
<1> TimerType /\ [Next]_vars
  BY DEF TimerInv, Next
<1>1. /\ [do |-> "init_led"].do = "init_led" /\ [do |-> "turn_on"].do = "turn_on"
      /\ BrightnessStep(5).do = "brightness" /\ BrightnessStep(5).percentage = 5
  BY DEF BrightnessStep
<1>2. CASE todo = BootInit /\ assertions.handler = nullptr
  <2>1. InitLed /\ ~ConnectHandler
    BY <1>1, <1>2, BootParts, ThreadMoves, NoSetup
  <2>2. todo' = BootOn /\ UNCHANGED <<controller, mode, assertions>>
    BY <1>2, <2>1, BootParts DEF InitLed, BootStep, Goes, swVars
  <2>3. HandlerFits'
    BY <1>2, <2>1, HandlerStays
  <2> QED
    BY <1>2, <2>2, <2>3 DEF InBoots, EffectTime
<1>3. CASE todo = BootOn /\ assertions.handler = nullptr
  <2>1. TurnOn /\ ~ConnectHandler /\ ~InitLed
    BY <1>1, <1>3, BootParts, ThreadMoves, NoSetup
  <2>2. todo' = BootBright /\ UNCHANGED <<controller, mode, assertions>> /\ Lit(led')
    BY <1>3, <2>1, BootParts, TurnOnIsType DEF TurnOn, BootStep, Goes, swVars, LedTypes
  <2>3. HandlerFits'
    BY <1>3, <2>1, HandlerStays
  <2> QED
    BY <2>2, <2>3 DEF InBoots, EffectTime
<1>4. CASE todo = BootBright /\ Lit(led)
  <2>0. PICK color : color = led.current_color_
    OBVIOUS
  <2>1. WriteBrightness /\ ~ConnectHandler /\ ~InitLed
    BY <1>1, <1>4, BootParts, ThreadMoves, NoSetup
  <2>2. color \in Colors
    BY <2>0 DEF LedTypes, Led
  <2>3. todo' = SetColorSteps(color) \o BootTimer /\ UNCHANGED <<controller, mode>>
    BY <1>4, <2>0, <2>1, BootParts DEF WriteBrightness, Goes, swVars
  <2>4. todo' = Paint1(color, BootTimer)
    BY <2>2, <2>3, PaintIsSetColor, BootParts
  <2>5. HandlerFits' /\ Lit(led')
    BY <1>4, <2>1, HandlerStays, LitStays
  <2>6. Painting(color, BootTimer)'
    BY <2>4 DEF Painting
  <2> QED
    BY <2>2, <2>3, <2>5, <2>6 DEF InBoots, EffectTime
<1> QED
  BY <1>2, <1>3, <1>4

LEMMA BootsPlain ==
  ASSUME LedTypes, TimerInv, HandlerFits, mode = "boots", Thread,
         EffectTime = 0 /\ ~controller.is_blinking_, Lit(led),
         \/ todo \in {BootTimer, BootConnect, BootReaction, BootPrint}
         \/ todo = BootHandler /\ assertions.reaction = call_assertion_handler_and_break_point
         \/ todo = BootDone /\ Painted(K_YELLOW) /\ controller.base_color_ = K_YELLOW
  PROVE  HandlerFits' /\ mode' = "boots" /\ InBoots'
<1> TimerType /\ [Next]_vars
  BY DEF TimerInv, Next
<1>1. PICK what \in {"start_timer", "connect_print", "set_reaction", "connect_handler", "print"} :
        Head(todo) = {[do |-> what]} /\ todo # << >>
  BY BootParts
<1>2. /\ todo' = Tail(todo) /\ UNCHANGED <<led, controller, mode, astray>>
  BY <1>1, PlainMoves DEF Plain
<1>3. [do |-> what].do = what
  OBVIOUS
<1>4. ~InitLed /\ (what # "connect_handler" => ~ConnectHandler)
  BY <1>1, <1>3, NoSetup
<1>5. Lit(led') /\ EffectTime' = 0 /\ ~controller'.is_blinking_ /\ mode' = "boots"
  BY <1>2 DEF EffectTime
<1>6. CASE todo = BootTimer \/ todo = BootConnect
  <2>1. ~ConnectHandler
    <3>1. Head(todo) = {[do |-> "start_timer"]} \/ Head(todo) = {[do |-> "connect_print"]}
      BY <1>6, BootParts
    <3>2. [do |-> "start_timer"].do = "start_timer" /\ [do |-> "connect_print"].do = "connect_print"
      OBVIOUS
    <3> QED
      BY <1>1, <3>1, <3>2, NoSetup
  <2>2. HandlerFits'
    BY <1>4, <2>1, HandlerStays
  <2>3. todo' \in {BootConnect, BootReaction}
    BY <1>2, <1>6, BootParts
  <2> QED
    BY <1>5, <2>2, <2>3 DEF InBoots
<1>7. CASE todo = BootReaction
  <2>1. [do |-> "set_reaction"].do = "set_reaction"
    OBVIOUS
  <2>2. SetReaction /\ ~ConnectHandler
    BY <1>7, <2>1, BootParts, ThreadMoves, NoSetup
  <2>3. HandlerFits'
    BY <1>4, <2>2, HandlerStays
  <2>4. todo' = BootHandler
    BY <1>2, <1>7, BootParts
  <2>5. assertions'.reaction = call_assertion_handler_and_break_point
    BY <2>2 DEF SetReaction, setAssertionFailedReaction, HandlerFits
  <2> QED
    BY <1>5, <2>3, <2>4, <2>5 DEF InBoots
<1>8. CASE todo = BootHandler /\ assertions.reaction = call_assertion_handler_and_break_point
  <2>1. HandlerFits'
    BY <1>4, <1>8, HandlerStays
  <2>2. todo' = BootPrint
    BY <1>2, <1>8, BootParts
  <2> QED
    BY <1>5, <2>1, <2>2 DEF InBoots
<1>9. CASE todo = BootPrint
  <2>1. [do |-> "print"].do = "print"
    OBVIOUS
  <2>2. ~ConnectHandler
    BY <1>9, <2>1, BootParts, NoSetup
  <2>3. HandlerFits'
    BY <1>4, <2>2, HandlerStays
  <2>4. todo' = Paint1(K_YELLOW, BootStore)
    BY <1>2, <1>9, BootParts DEF BootYellow
  <2>5. Painting(K_YELLOW, BootStore)'
    BY <2>4 DEF Painting
  <2> QED
    BY <1>5, <2>3, <2>5 DEF InBoots
<1>10. CASE todo = BootDone /\ Painted(K_YELLOW) /\ controller.base_color_ = K_YELLOW
  <2>1. [do |-> "print"].do = "print"
    OBVIOUS
  <2>2. ~ConnectHandler
    BY <1>10, <2>1, BootParts, NoSetup
  <2>3. HandlerFits'
    BY <1>4, <2>2, HandlerStays
  <2>4. todo' = << >>
    BY <1>2, <1>10, BootParts
  <2>5. Painted(K_YELLOW)' /\ controller'.base_color_ = K_YELLOW
    BY <1>2, <1>10 DEF Painted
  <2> QED
    BY <1>5, <2>3, <2>4, <2>5 DEF InBoots
<1> QED
  BY <1>6, <1>7, <1>8, <1>9, <1>10

\* What a base colour's store does, at the end of an operation or a boot.
LEMMA BaseStoreDoes ==
  ASSUME LedTypes, NEW color \in Colors, todo # << >>,
         Head(todo) = {Store("base_color_", color)}, Thread
  PROVE  /\ todo' = Tail(todo) /\ UNCHANGED <<led, mode, assertions, astray>>
         /\ controller' = [controller EXCEPT !.base_color_ = color]
         /\ ~InitLed /\ ~ConnectHandler
<1> DEFINE s == Store("base_color_", color)
<1>1. s.do = "store" /\ s.field = "base_color_" /\ s.value = color
  BY DEF Store
<1> HIDE DEF s
<1>2. Head(todo) = {s}
  BY DEF s
<1>3. StoreField /\ Steps = {s} /\ Rest(s) = Tail(todo) /\ ~InitLed /\ ~ConnectHandler
  BY <1>1, <1>2, ThreadMoves, OnlyStep, NoSetup
<1> QED
  BY <1>1, <1>3 DEF StoreField, Goes, swVars, effects

LEMMA BootsYellow ==
  ASSUME LedTypes, TimerInv, HandlerFits, mode = "boots", Thread,
         EffectTime = 0 /\ ~controller.is_blinking_, Lit(led),
         \/ \E color \in Colors : Painting(color, BootTimer)
         \/ Painting(K_YELLOW, BootStore)
         \/ todo = BootStore /\ Painted(K_YELLOW)
  PROVE  HandlerFits' /\ mode' = "boots" /\ InBoots'
<1> TimerType /\ [Next]_vars
  BY DEF TimerInv, Next
<1>1. ASSUME NEW color \in Colors, NEW rest \in Todo, Painting(color, rest)
      PROVE  /\ HandlerFits' /\ UNCHANGED paintFrame /\ Lit(led')
             /\ Painting(color, rest)' \/ (todo' = rest /\ Painted(color)')
  <2>1. PICK step : Head(todo) = {step} /\ step.do \in {"level", "current"} /\ todo # << >>
    BY <1>1, PaintHead
  <2>2. ~InitLed /\ ~ConnectHandler
    BY <2>1, NoSetup
  <2> QED
    BY <1>1, <2>2, PaintThread, HandlerStays
<1>2. CASE \E color \in Colors : Painting(color, BootTimer)
  BY <1>1, <1>2, BootParts DEF InBoots, paintFrame, EffectTime
<1>3. CASE Painting(K_YELLOW, BootStore)
  BY <1>1, <1>3, BootParts, NamedColors DEF InBoots, paintFrame, EffectTime
<1>4. CASE todo = BootStore /\ Painted(K_YELLOW)
  <2>1. /\ todo' = BootDone /\ UNCHANGED <<led, mode, assertions, astray>>
        /\ controller' = [controller EXCEPT !.base_color_ = K_YELLOW]
        /\ ~InitLed /\ ~ConnectHandler
    BY <1>4, BootParts, NamedColors, BaseStoreDoes
  <2>2. /\ controller'.base_color_ = K_YELLOW /\ EffectTime' = 0 /\ ~controller'.is_blinking_
    BY <2>1 DEF LedTypes, ControllerType, EffectTime
  <2>3. Painted(K_YELLOW)'
    BY <1>4, <2>1 DEF Painted
  <2>4. HandlerFits'
    BY <2>1, HandlerStays
  <2> QED
    BY <2>1, <2>2, <2>3, <2>4 DEF InBoots
<1> QED
  BY <1>2, <1>3, <1>4

LEMMA BootsThread ==
  ASSUME LedTypes, TimerInv, HandlerFits, mode = "boots", InBoots, Thread
  PROVE  HandlerFits' /\ mode' \in {"boots", "runs"} /\ (mode' = "boots" => InBoots')
         /\ (mode' = "runs" => InRuns')
<1> TimerType /\ [Next]_vars
  BY DEF TimerInv, Next
<1>1. CASE todo = << >> /\ Lit(led) /\ Painted(K_YELLOW) /\ controller.base_color_ = K_YELLOW
  <2>1. \A what : ~HeadDoes(what)
    BY <1>1 DEF HeadDoes
  <2>2. EnterMainLoop /\ ~InitLed /\ ~ConnectHandler
    BY <2>1, ActionsDo DEF Thread, Boot
  <2>3. mode' = "runs" /\ UNCHANGED placeVarsRest
    BY <2>2 DEF EnterMainLoop, placeVarsRest
  <2>4. Idle'
    BY <1>1, <2>3 DEF InBoots, Idle, Settled, Blinking, CurrentIsBase, Painted, EffectTime,
                      placeVarsRest
  <2> QED
    BY <1>1, <2>2, <2>3, <2>4, HandlerStays DEF InRuns, placeVarsRest
<1>2. CASE ~(todo = << >> /\ Lit(led) /\ Painted(K_YELLOW) /\ controller.base_color_ = K_YELLOW)
  BY <1>2, BootsStart, BootsPlain, BootsYellow DEF InBoots
<1> QED
  BY <1>1, <1>2

LEMMA BootsInterrupt ==
  ASSUME LedTypes, TimerInv, HandlerFits, InBoots, periodicLedUpdateTimerISR
  PROVE  HandlerFits' /\ mode' = mode /\ InBoots'
<1>1. UNCHANGED placeVars
  BY IdleInterrupt DEF InBoots
<1> QED
  BY <1>1, PlaceStays DEF placeVars

-----------------------------------------------------------------------------
(* A failed assertion.                                                     *)
LEMMA FailParts ==
  /\ FailHalt \in Todo /\ FailHalt # << >>
  /\ Head(FailHalt) = {[do |-> "halt"]} /\ Tail(FailHalt) = << >>
  /\ FailFlush \in Todo /\ FailFlush # << >>
  /\ Head(FailFlush) = {[do |-> "flush"]} /\ Tail(FailFlush) = FailHalt
  /\ FailPrint \in Todo /\ FailPrint # << >>
  /\ Head(FailPrint) = {[do |-> "print"]} /\ Tail(FailPrint) = FailFlush
  /\ \A rest \in Todo :
       /\ RedStore(rest) \in Todo /\ RedStore(rest) # << >>
       /\ Head(RedStore(rest)) = {Store("base_color_", K_RED)} /\ Tail(RedStore(rest)) = rest
  /\ RedFlush \in Todo /\ RedFlush # << >>
  /\ Head(RedFlush) = {[do |-> "flush"]}
  /\ Tail(RedFlush) = Paint1(K_RED, RedStore(FailHalt))
  /\ RedPrint \in Todo /\ RedPrint # << >>
  /\ Head(RedPrint) = {[do |-> "print"]} /\ Tail(RedPrint) = RedFlush
<1>1. /\ FailHalt \in Todo /\ FailHalt # << >>
      /\ Head(FailHalt) = {[do |-> "halt"]} /\ Tail(FailHalt) = << >>
  BY PlainAlone DEF FailHalt, Plain
<1>2. /\ FailFlush \in Todo /\ FailFlush # << >>
      /\ Head(FailFlush) = {[do |-> "flush"]} /\ Tail(FailFlush) = FailHalt
  BY <1>1, PlainMore DEF FailFlush, Plain
<1>3. /\ FailPrint \in Todo /\ FailPrint # << >>
      /\ Head(FailPrint) = {[do |-> "print"]} /\ Tail(FailPrint) = FailFlush
  BY <1>2, PlainMore DEF FailPrint, Plain
<1>4. \A rest \in Todo :
        /\ RedStore(rest) \in Todo /\ RedStore(rest) # << >>
        /\ Head(RedStore(rest)) = {Store("base_color_", K_RED)} /\ Tail(RedStore(rest)) = rest
  BY StoreMore, NamedColors DEF RedStore
<1>5. Paint1(K_RED, RedStore(FailHalt)) \in Todo
  BY <1>1, <1>4, PaintParts, NamedColors
<1>6. /\ RedFlush \in Todo /\ RedFlush # << >>
      /\ Head(RedFlush) = {[do |-> "flush"]}
      /\ Tail(RedFlush) = Paint1(K_RED, RedStore(FailHalt))
  BY <1>5, PlainMore DEF RedFlush, Plain
<1>7. /\ RedPrint \in Todo /\ RedPrint # << >>
      /\ Head(RedPrint) = {[do |-> "print"]} /\ Tail(RedPrint) = RedFlush
  BY <1>6, PlainMore DEF RedPrint, Plain
<1> QED
  BY <1>1, <1>2, <1>3, <1>4, <1>6, <1>7

LEMMA EmptyThen ==
  ASSUME NEW s \in Todo
  PROVE  Then(<< >>, s) = s /\ Then(s, << >>) = s
BY ConcatEmptySeq DEF Then, Todo

LEMMA RedThen ==
  ASSUME NEW rest \in Todo
  PROVE  Then(onAssertionFailed, rest) = Paint1(K_RED, RedStore(rest))
<1> DEFINE sc == SetColorSteps(K_RED)
           st == <<{Store("base_color_", K_RED)}>>
<1>1. {Store("base_color_", K_RED)} \in SUBSET ThreadStep
  BY Stores, SetsOfSteps, NamedColors
<1>2. sc \in Todo /\ st \in Todo
  BY <1>1, SetColorStepsTyped, NamedColors DEF Todo
<1>3. onAssertionFailed = Then(sc, st) /\ RedStore(rest) = Then(st, rest)
  BY DEF onAssertionFailed, setConstantBaseColor, RedStore, Then
<1>4. Then(sc, RedStore(rest)) = Paint1(K_RED, RedStore(rest))
  BY FailParts, PaintIsSetColor, NamedColors DEF Then
<1> HIDE DEF sc, st
<1>5. Then(Then(sc, st), rest) = Then(sc, Then(st, rest))
  BY <1>2, ThenSwap
<1> QED
  BY <1>3, <1>4, <1>5

LEMMA FailSteps ==
  ASSUME HandlerFits, NEW level, NEW steps,
         steps = onAssertFail(level, assertions, onAssertionFailed, Do("print"), Do("flush"),
                              Do("halt"))
  PROVE  IF assertions.handler = nullptr THEN steps \in {FailPrint, FailFlush}
         ELSE steps \in {Paint1(K_RED, RedStore(FailFlush)), RedPrint}
<1> DEFINE p == Do("print")
           f == Do("flush")
           h == Do("halt")
           red == onAssertionFailed
           called == IF assertions.handler = nullptr THEN << >> ELSE red
<1>1. p \in Todo /\ f \in Todo /\ h \in Todo
  BY DoTyped DEF Plain
<1>2. red \in Todo
  BY NamedColors, OperationsTyped DEF onAssertionFailed
<1>3. CallsHandler(assertions) <=> assertions.handler # nullptr
  BY DEF HandlerFits, CallsHandler, nullptr
<1>4. BreaksPoint(assertions)
  BY DEF HandlerFits, BreaksPoint
<1>5. steps \in {Then(Then(called, f), h), Then(Then(Then(p, f), called), h)}
  BY <1>3, <1>4 DEF onAssertFail, Then
<1>6. /\ FailHalt = h /\ FailFlush = Then(f, h) /\ FailPrint = Then(p, Then(f, h))
      /\ RedPrint = Then(p, Then(f, Paint1(K_RED, RedStore(FailHalt))))
  BY DEF FailHalt, FailFlush, FailPrint, RedPrint, RedFlush, Then
<1> HIDE DEF p, f, h, red
<1>7. Then(p, f) \in Todo /\ Then(f, h) \in Todo
  BY <1>1, ThenTyped
<1>8. CASE assertions.handler = nullptr
  <2>1. Then(<< >>, f) = f /\ Then(Then(p, f), << >>) = Then(p, f)
    BY <1>1, <1>7, EmptyThen
  <2>2. Then(Then(p, f), h) = Then(p, Then(f, h))
    BY <1>1, ThenSwap
  <2> QED
    BY <1>5, <1>6, <1>8, <2>1, <2>2
<1>9. CASE assertions.handler # nullptr
  <2>1. Then(Then(red, f), h) = Then(red, Then(f, h))
    BY <1>1, <1>2, ThenSwap
  <2>2. Then(red, Then(f, h)) = Paint1(K_RED, RedStore(Then(f, h)))
    BY <1>7, RedThen DEF red
  <2>3. Then(red, h) = Paint1(K_RED, RedStore(h))
    BY <1>1, RedThen DEF red
  <2>4. Then(Then(Then(p, f), red), h) = Then(p, Then(f, Then(red, h)))
    BY <1>1, <1>2, RegroupThree
  <2> QED
    BY <1>5, <1>6, <1>9, <2>1, <2>2, <2>3, <2>4
<1> QED
  BY <1>8, <1>9

LEMMA FailBegins ==
  ASSUME HandlerFits, AssertionFails
  PROVE  HandlerFits' /\ mode' = "fails" /\ InFails'
<1>1. PICK level \in AssertLevels :
        todo' = onAssertFail(level, assertions, onAssertionFailed, Do("print"), Do("flush"),
                             Do("halt"))
  BY DEF AssertionFails
<1>2. IF assertions.handler = nullptr THEN todo' \in {FailPrint, FailFlush}
      ELSE todo' \in {Paint1(K_RED, RedStore(FailFlush)), RedPrint}
  BY <1>1, FailSteps
<1>3. mode' = "fails" /\ UNCHANGED <<led, assertions>>
  BY DEF AssertionFails
<1>4. todo' = Paint1(K_RED, RedStore(FailFlush)) => Painting(K_RED, RedStore(FailFlush))'
  BY DEF Painting
<1> QED
  BY <1>2, <1>3, <1>4 DEF HandlerFits, InFails, Reddening

LEMMA PaintsOn ==
  ASSUME LedTypes, TimerInv, HandlerFits, Lit(led), NEW color \in Colors, NEW rest \in Todo,
         Painting(color, rest), Thread
  PROVE  /\ HandlerFits' /\ UNCHANGED paintFrame /\ Lit(led')
         /\ \/ Painting(color, rest)' /\ led'.current_color_ = led.current_color_
            \/ todo' = rest /\ Painted(color)'
<1>1. PICK step : Head(todo) = {step} /\ step.do \in {"level", "current"} /\ todo # << >>
  BY PaintHead
<1>2. ~InitLed /\ ~ConnectHandler /\ TimerType /\ [Next]_vars
  BY <1>1, NoSetup DEF TimerInv, Next
<1> QED
  BY <1>2, PaintThread, HandlerStays

LEMMA PlainKeeps ==
  ASSUME LedTypes, TimerInv, HandlerFits, NEW what \in {"print", "flush"},
         todo # << >>, Head(todo) = {[do |-> what]}, Thread
  PROVE  todo' = Tail(todo) /\ UNCHANGED <<led, controller, mode, astray, assertions>>
BY PlainMoves DEF Plain

LEMMA HaltDoes ==
  ASSUME todo # << >>, Head(todo) = {[do |-> "halt"]}, Thread
  PROVE  /\ todo' = Tail(todo) /\ mode' = "halted"
         /\ UNCHANGED <<led, controller, astray, assertions>>
<1>1. [do |-> "halt"].do = "halt"
  OBVIOUS
<1>2. Halt
  BY <1>1, ThreadMoves
<1> QED
  BY <1>2 DEF Halt, BootStep, Goes

BlinkingKept ==
  /\ EffectTime' = EffectTime
  /\ controller'.is_blinking_ = controller.is_blinking_
  /\ controller'.blink_duration_ms_ = controller.blink_duration_ms_

FailsOn ==
  /\ BlinkingKept
  /\ HandlerFits' /\ mode' \in {"fails", "halted"}
  /\ mode' = "fails" => InFails'
  /\ mode' = "halted" => (todo = << >> /\ (assertions.handler # nullptr => RedSet))'

LEMMA FailsBare ==
  ASSUME LedTypes, TimerInv, HandlerFits, mode = "fails", Thread,
         assertions.handler = nullptr, todo \in {FailPrint, FailFlush, FailHalt}
  PROVE  FailsOn
<1>1. CASE todo = FailPrint \/ todo = FailFlush
  <2>1. todo' = Tail(todo) /\ UNCHANGED <<led, controller, mode, astray, assertions>>
    BY <1>1, FailParts, PlainKeeps
  <2> QED
    BY <1>1, <2>1, FailParts DEF FailsOn, InFails, HandlerFits, BlinkingKept, EffectTime
<1>2. CASE todo = FailHalt
  BY <1>2, FailParts, HaltDoes DEF FailsOn, HandlerFits, BlinkingKept, EffectTime
<1> QED
  BY <1>1, <1>2

LEMMA FailsRed ==
  ASSUME LedTypes, TimerInv, HandlerFits, mode = "fails", Thread, Lit(led),
         NEW rest \in {FailFlush, FailHalt}, Reddening(rest)
  PROVE  FailsOn
<1>1. rest \in Todo /\ RedStore(rest) \in Todo
  BY FailParts
<1>2. CASE Painting(K_RED, RedStore(rest))
  BY <1>1, <1>2, PaintsOn, NamedColors DEF FailsOn, InFails, Reddening, paintFrame,
     BlinkingKept, EffectTime
<1>3. CASE todo = RedStore(rest) /\ Painted(K_RED)
  <2>1. /\ todo' = rest /\ UNCHANGED <<led, mode, assertions, astray>>
        /\ controller' = [controller EXCEPT !.base_color_ = K_RED]
    BY <1>1, <1>3, FailParts, NamedColors, BaseStoreDoes
  <2>2. RedSet'
    BY <1>3, <2>1 DEF RedSet, Painted, LedTypes, ControllerType
  <2>3. BlinkingKept
    BY <2>1 DEF BlinkingKept, EffectTime, LedTypes, ControllerType
  <2> QED
    BY <2>1, <2>2, <2>3 DEF FailsOn, InFails, Reddening, HandlerFits
<1>4. CASE todo = FailFlush /\ RedSet
  <2>1. todo' = FailHalt /\ UNCHANGED <<led, controller, mode, astray, assertions>>
    BY <1>4, FailParts, PlainKeeps
  <2>2. RedSet'
    BY <1>4, <2>1 DEF RedSet
  <2> QED
    BY <2>1, <2>2 DEF FailsOn, InFails, Reddening, HandlerFits, BlinkingKept, EffectTime
<1>5. CASE todo = FailHalt /\ RedSet
  <2>1. todo' = << >> /\ mode' = "halted" /\ UNCHANGED <<led, controller, astray, assertions>>
    BY <1>5, FailParts, HaltDoes
  <2>2. RedSet'
    BY <1>5, <2>1 DEF RedSet
  <2> QED
    BY <2>1, <2>2 DEF FailsOn, HandlerFits, BlinkingKept, EffectTime
<1> QED
  BY <1>2, <1>3, <1>4, <1>5 DEF Reddening

LEMMA FailsThread ==
  ASSUME LedTypes, TimerInv, HandlerFits, mode = "fails", InFails, Thread
  PROVE  FailsOn
<1>1. CASE assertions.handler = nullptr /\ todo \in {FailPrint, FailFlush, FailHalt}
  BY <1>1, FailsBare
<1>2. CASE Lit(led) /\ todo \in {RedPrint, RedFlush}
  <2>1. todo' = Tail(todo) /\ UNCHANGED <<led, controller, mode, astray, assertions>>
    BY <1>2, FailParts, PlainKeeps
  <2>2. todo' = RedFlush \/ Painting(K_RED, RedStore(FailHalt))'
    BY <1>2, <2>1, FailParts DEF Painting
  <2> QED
    BY <1>2, <2>1, <2>2 DEF FailsOn, InFails, Reddening, HandlerFits, BlinkingKept, EffectTime
<1>3. CASE Lit(led) /\ (Reddening(FailFlush) \/ Reddening(FailHalt))
  BY <1>3, FailsRed
<1> QED
  BY <1>1, <1>2, <1>3 DEF InFails

LEMMA FailsInterrupt ==
  ASSUME LedTypes, TimerInv, HandlerFits, InFails, periodicLedUpdateTimerISR
  PROVE  InFails' /\ mode' = mode
<1>1. /\ UNCHANGED <<todo, assertions, mode>> /\ (Lit(led) => Lit(led'))
      /\ controller'.base_color_ = controller.base_color_
      /\ controller'.is_blinking_ = controller.is_blinking_
      /\ Counted \/ Repainted
  BY InterruptDoes
<1>2. TimerType
  BY DEF TimerInv
<1>3. Lit(led) /\ RedSet => RedSet'
  BY <1>1 DEF RedSet, Counted, Repainted
<1>4. ASSUME NEW rest \in {FailFlush, FailHalt}, Lit(led), Reddening(rest)
      PROVE  Reddening(rest)'
  <2>1. rest \in Todo /\ RedStore(rest) \in Todo
    BY FailParts
  <2>2. CASE Painting(K_RED, RedStore(rest))
    BY <1>2, <2>1, <2>2, PaintInterrupted, NamedColors DEF Reddening
  <2>3. CASE todo = RedStore(rest) /\ Painted(K_RED)
    <3>1. ColorUnderWay
      <4>1. todo # << >> /\ Store("base_color_", K_RED) \in Head(todo)
        BY <2>1, <2>3, FailParts
      <4> QED
        BY <4>1 DEF ColorUnderWay, WritesColor, Store
    <3>2. astray' \/ (led' = led /\ astray' = astray)
      BY <1>2, <3>1, InterruptUnderWay
    <3> QED
      BY <1>1, <2>3, <3>2 DEF Reddening, Painted
  <2>4. CASE todo = rest /\ RedSet
    BY <1>1, <1>3, <1>4, <2>4 DEF Reddening
  <2> QED
    BY <1>4, <2>2, <2>3, <2>4 DEF Reddening
<1> QED
  BY <1>1, <1>4 DEF InFails

-----------------------------------------------------------------------------
(* The main loop.                                                          *)
LEMMA OneLeft ==
  ASSUME NEW S \in SUBSET ThreadStep
  PROVE  <<S>> \in Todo /\ <<S>> # << >> /\ Head(<<S>>) = S /\ Tail(<<S>>) = << >>
<1>1. <<S>> \in Todo
  BY DEF Todo
<1> QED
  BY <1>1 DEF Todo

LEMMA StoresAlone ==
  ASSUME NEW color \in Colors, NEW n \in Nat
  PROVE  /\ {Store("base_color_", color)} \in SUBSET ThreadStep
         /\ {Store("effect_duration_left_ms_", n)} \in SUBSET ThreadStep
         /\ <<{Store("base_color_", color)}>> \in Todo
         /\ <<{Store("effect_duration_left_ms_", n)}>> \in Todo
<1>1. /\ {Store("base_color_", color)} \in SUBSET ThreadStep
      /\ {Store("effect_duration_left_ms_", n)} \in SUBSET ThreadStep
  BY Stores, SetsOfSteps
<1> QED
  BY <1>1, OneLeft

LEMMA NotBoot ==
  ASSUME LedTypes, TimerInv, HandlerFits, [Next]_vars, ~InitLed, ~ConnectHandler
  PROVE  HandlerFits' /\ (Lit(led) => Lit(led'))
BY HandlerStays, LitStays DEF TimerInv

\* What the main loop's step leads to.
RunsOn == HandlerFits' /\ mode' = "runs" /\ InRuns'

\* Once a colour is written, and the time or the base colour stored, all is settled.
LEMMA BasingGoesOn ==
  ASSUME LedTypes, TimerInv, HandlerFits, mode = "runs", Lit(led), Basing, Thread
  PROVE  RunsOn
<1>1. PICK color \in Colors :
        \/ Painting(color, <<{Store("base_color_", color)}>>)
        \/ todo = <<{Store("base_color_", color)}>> /\ Painted(color)
  BY DEF Basing
<1> DEFINE rest == <<{Store("base_color_", color)}>>
<1>2. rest \in Todo /\ rest # << >> /\ Head(rest) = {Store("base_color_", color)}
      /\ Tail(rest) = << >>
  BY StoresAlone, OneLeft
<1>3. Blinking
  BY DEF Basing
<1>4. CASE Painting(color, rest)
  <2>1. /\ HandlerFits' /\ UNCHANGED paintFrame /\ Lit(led')
        /\ Painting(color, rest)' \/ (todo' = rest /\ Painted(color)')
    BY <1>2, <1>4, PaintsOn
  <2>2. Blinking'
    BY <1>3, <2>1 DEF Blinking, paintFrame, EffectTime
  <2>3. Basing'
    BY <2>1, <2>2 DEF Basing
  <2> QED
    BY <2>1, <2>3 DEF RunsOn, InRuns, paintFrame
<1>5. CASE todo = rest /\ Painted(color)
  <2>1. /\ todo' = << >> /\ UNCHANGED <<led, mode, assertions, astray>>
        /\ controller' = [controller EXCEPT !.base_color_ = color]
    BY <1>2, <1>5, BaseStoreDoes
  <2>2. /\ controller'.base_color_ = color /\ EffectTime' = EffectTime
        /\ controller'.is_blinking_ = controller.is_blinking_
        /\ controller'.blink_duration_ms_ = controller.blink_duration_ms_
    BY <2>1 DEF LedTypes, ControllerType, EffectTime
  <2>3. Blinking'
    BY <1>3, <2>2 DEF Blinking
  <2>4. Settled'
    BY <1>5, <2>1, <2>2 DEF Settled, CurrentIsBase, Painted
  <2> QED
    BY <2>1, <2>3, <2>4 DEF RunsOn, InRuns, Idle, HandlerFits
<1> QED
  BY <1>1, <1>4, <1>5

LEMMA TimeStoreDoes ==
  ASSUME LedTypes, NEW n \in Nat \ {0}, todo # << >>,
         Head(todo) = {Store("effect_duration_left_ms_", n)}, Thread
  PROVE  /\ todo' = Tail(todo) /\ UNCHANGED <<led, mode, assertions>>
         /\ controller' = [controller EXCEPT !.effect_duration_left_ms_ = n]
         /\ astray' = astray
<1> DEFINE s == Store("effect_duration_left_ms_", n)
<1>1. s.do = "store" /\ s.field = "effect_duration_left_ms_" /\ s.value = n
  BY DEF Store
<1> HIDE DEF s
<1>2. Head(todo) = {s}
  BY DEF s
<1>3. StoreField /\ Steps = {s} /\ Rest(s) = Tail(todo)
  BY <1>1, <1>2, ThreadMoves, OnlyStep
<1>4. /\ todo' = Tail(todo) /\ UNCHANGED <<led, mode, assertions>>
      /\ controller' = [controller EXCEPT !.effect_duration_left_ms_ = n]
      /\ astray' = (astray \/ (n = 0 /\ led.current_color_ # controller.base_color_))
  BY <1>1, <1>3 DEF StoreField, Goes, swVars
<1> QED
  BY <1>4 DEF LedTypes

LEMMA FlashingGoesOn ==
  ASSUME LedTypes, TimerInv, HandlerFits, mode = "runs", Lit(led), Flashing, Thread
  PROVE  RunsOn
<1>1. PICK color \in Colors, n \in FlashDurations :
        \/ Painting(color, <<{Store("effect_duration_left_ms_", n)}>>)
        \/ todo = <<{Store("effect_duration_left_ms_", n)}>> /\ Painted(color)
  BY DEF Flashing
<1> DEFINE rest == <<{Store("effect_duration_left_ms_", n)}>>
<1>2. rest \in Todo /\ rest # << >> /\ Head(rest) = {Store("effect_duration_left_ms_", n)}
      /\ Tail(rest) = << >> /\ n \in Nat \ {0}
  BY CallsAssumption, StoresAlone, OneLeft
<1>3. Blinking
  BY DEF Flashing
<1>4. CASE Painting(color, rest)
  <2>1. /\ HandlerFits' /\ UNCHANGED paintFrame /\ Lit(led')
        /\ Painting(color, rest)' \/ (todo' = rest /\ Painted(color)')
    BY <1>2, <1>4, PaintsOn
  <2>2. Blinking'
    BY <1>3, <2>1 DEF Blinking, paintFrame, EffectTime
  <2>3. Flashing'
    BY <2>1, <2>2 DEF Flashing
  <2> QED
    BY <2>1, <2>3 DEF RunsOn, InRuns, paintFrame
<1>5. CASE todo = rest /\ Painted(color)
  <2>1. /\ todo' = << >> /\ UNCHANGED <<led, mode, assertions, astray>>
        /\ controller' = [controller EXCEPT !.effect_duration_left_ms_ = n]
    BY <1>2, <1>5, TimeStoreDoes
  <2>2. /\ controller'.base_color_ = controller.base_color_ /\ EffectTime' = n /\ n > 0
        /\ controller'.is_blinking_ = controller.is_blinking_
        /\ controller'.blink_duration_ms_ = controller.blink_duration_ms_
    BY <1>2, <2>1 DEF LedTypes, ControllerType, EffectTime
  <2>3. Blinking'
    BY <1>3, <2>2 DEF Blinking
  <2>4. Settled'
    BY <1>2, <1>5, <2>1, <2>2 DEF Settled, CurrentIsBase, Painted
  <2> QED
    BY <2>1, <2>3, <2>4 DEF RunsOn, InRuns, Idle, HandlerFits
<1> QED
  BY <1>1, <1>4, <1>5

LEMMA DimmingGoesOn ==
  ASSUME LedTypes, TimerInv, HandlerFits, mode = "runs", Lit(led), Dimming, Thread
  PROVE  RunsOn
<1>1. Blinking
  BY DEF Dimming
<1>2. ASSUME NEW percentage \in Percentages, todo = setBrightness(percentage), Settled
      PROVE  RunsOn
  <2> DEFINE s == BrightnessStep(percentage)
  <2>1. s.do = "brightness" /\ percentage \in Int /\ {s} \in SUBSET ThreadStep
    BY CallsAssumption, SetsOfSteps DEF BrightnessStep
  <2>2. todo = <<{s}>>
    BY <1>2 DEF setBrightness, BrightnessStep
  <2>3. todo # << >> /\ Head(todo) = {s} /\ Tail(todo) = << >> /\ << >> \in Todo
    BY <2>1, <2>2, OneLeft DEF Todo
  <2> HIDE DEF s
  <2>4. PICK color \in Colors : color = led.current_color_
    BY DEF LedTypes, Led
  <2>5. WriteBrightness /\ ~ConnectHandler /\ ~InitLed /\ [Next]_vars
    BY <2>1, <2>3, ThreadMoves, NoSetup DEF Next
  <2>6. PICK step \in Steps : /\ ThreadDoes("brightness", step)
                              /\ led' = setBrightnessMultiplier(led, step.percentage)
                              /\ Goes(SetColorSteps(led.current_color_) \o Tail(todo))
                              /\ UNCHANGED <<controller, swVars, astray>>
    BY <2>5 DEF WriteBrightness
  <2>7. step.percentage \in Int
    BY <2>6, RestTyped, StepKinds DEF ThreadDoes, LedTypes
  <2>8. led'.current_color_ = color
    BY <2>4, <2>6, <2>7, SetBrightnessIsType DEF LedTypes
  <2>9. todo' = Paint1(color, << >>) /\ UNCHANGED <<controller, mode, astray>>
    BY <2>3, <2>4, <2>6, PaintIsSetColor DEF Goes, swVars
  <2>10. Painting(color, << >>)' /\ HandlerFits' /\ Lit(led')
    BY <2>5, <2>9, NotBoot DEF Painting
  <2>11. BlinksOutlastUpdates /\ ~astray => CurrentIsBase'
    BY <1>2, <2>4, <2>8, <2>9 DEF Settled, CurrentIsBase, EffectTime
  <2>12. Blinking'
    BY <1>1, <2>9 DEF Blinking, EffectTime
  <2>13. Dimming'
    BY <2>8, <2>9, <2>10, <2>11, <2>12 DEF Dimming
  <2> QED
    BY <2>9, <2>10, <2>13 DEF RunsOn, InRuns
<1>3. ASSUME NEW color \in Colors, Painting(color, << >>),
             BlinksOutlastUpdates /\ ~astray => CurrentIsBase,
             BlinksOutlastUpdates /\ ~astray => led.current_color_ = color
      PROVE  RunsOn
  <2>1. << >> \in Todo
    BY DEF Todo
  <2>2. /\ HandlerFits' /\ UNCHANGED paintFrame /\ Lit(led')
        /\ \/ Painting(color, << >>)' /\ led'.current_color_ = led.current_color_
           \/ todo' = << >> /\ Painted(color)'
    BY <1>3, <2>1, PaintsOn
  <2>3. UNCHANGED <<controller, mode, astray>>
    BY <2>2 DEF paintFrame
  <2>4. Blinking'
    BY <1>1, <2>3 DEF Blinking, EffectTime
  <2>5. CASE Painting(color, << >>)' /\ led'.current_color_ = led.current_color_
    <3>1. Dimming'
      BY <1>3, <2>3, <2>4, <2>5 DEF Dimming, CurrentIsBase, EffectTime
    <3> QED
      BY <2>2, <2>3, <3>1 DEF RunsOn, InRuns
  <2>6. CASE todo' = << >> /\ Painted(color)'
    <3>1. Settled'
      BY <1>3, <2>3, <2>6 DEF Settled, Painted, CurrentIsBase, EffectTime
    <3> QED
      BY <2>2, <2>3, <2>4, <2>6, <3>1 DEF RunsOn, InRuns, Idle
  <2> QED
    BY <2>2, <2>5, <2>6
<1> QED
  BY <1>2, <1>3 DEF Dimming

\* One of the stores of a set is done, and the others are left.
LEMMA StoreOne ==
  ASSUME LedTypes, NEW left \in SUBSET StoreStep, left # {}, todo = <<left>>, Thread
  PROVE  \E step \in left :
           /\ StoreField /\ ~InitLed /\ ~ConnectHandler
           /\ ~timer.raised /\ UNCHANGED <<timer, led, mode, assertions>>
           /\ controller' = [controller EXCEPT ![step.field] = step.value]
           /\ IF step.field = "effect_duration_left_ms_"
              THEN astray' = (astray \/
                             (step.value = 0 /\ led.current_color_ # controller.base_color_))
              ELSE astray' = astray
           /\ IF left \ {step} = {} THEN todo' = << >>
              ELSE todo' = <<left \ {step}>> /\ ticked' = ticked
<1>1. left \in SUBSET ThreadStep
  BY SetsOfSteps
<1>2. todo # << >> /\ Head(todo) = left /\ Tail(todo) = << >> /\ Steps = left
  BY <1>1, OneLeft DEF Steps
<1>3. \A step \in left : step.do = "store"
  BY DEF StoreStep, Store
<1>4. \A what : HeadDoes(what) => what = "store"
  BY <1>2, <1>3 DEF HeadDoes
<1>5. StoreField /\ ~InitLed /\ ~ConnectHandler
  BY <1>2, <1>4, ActionsDo DEF Thread, Boot, EnterMainLoop
<1>6. PICK step \in left :
        /\ ThreadDoes("store", step)
        /\ controller' = [controller EXCEPT ![step.field] = step.value]
        /\ IF step.field = "effect_duration_left_ms_"
           THEN astray' = (astray \/
                          (step.value = 0 /\ led.current_color_ # controller.base_color_))
           ELSE UNCHANGED <<effects, astray>>
        /\ Goes(Rest(step))
        /\ UNCHANGED <<timer, led, swVars>>
  BY <1>2, <1>5 DEF StoreField
<1>7. CASE left \ {step} = {}
  <2>1. left = {step}
    BY <1>7
  <2>2. Rest(step) = << >>
    BY <1>2, <2>1 DEF Rest
  <2> QED
    BY <1>5, <1>6, <1>7, <2>2 DEF Goes, ThreadDoes, swVars
<1>8. CASE left \ {step} # {}
  <2>1. left # {step}
    BY <1>8
  <2>2. Rest(step) = <<left \ {step}>> \o << >>
    BY <1>2, <2>1 DEF Rest
  <2>3. <<left \ {step}>> \in Todo /\ <<left \ {step}>> # << >>
    <3>1. left \ {step} \in SUBSET ThreadStep
      BY <1>1
    <3> QED
      BY <3>1, OneLeft
  <2>4. <<left \ {step}>> \o << >> = <<left \ {step}>>
    BY <2>3, ConcatEmptySeq DEF Todo
  <2>5. todo' = <<left \ {step}>> /\ ticked' = ticked
    BY <1>6, <2>2, <2>3, <2>4 DEF Goes, LedTypes
  <2> QED
    BY <1>5, <1>6, <1>8, <2>5 DEF ThreadDoes, swVars
<1> QED
  BY <1>7, <1>8

LEMMA BlinkGoesOn ==
  ASSUME LedTypes, TimerInv, HandlerFits, mode = "runs", Lit(led), StartingBlink, Thread
  PROVE  RunsOn
<1>1. PICK color \in OverrideColors, n \in BlinkDurations, left \in SUBSET StoreStep :
        /\ left # {} /\ todo = <<left>>
        /\ left \subseteq {Store("override_color_", color), Store("effect_duration_left_ms_", n),
                           Store("blink_duration_ms_", n), Store("is_blinking_", TRUE)}
        /\ Store("blink_duration_ms_", n) \notin left => controller.blink_duration_ms_ > 0
        /\ Store("effect_duration_left_ms_", n) \notin left /\ BlinksOutlastUpdates => Lasts
  BY DEF StartingBlink
<1> DEFINE over == Store("override_color_", color)
           time == Store("effect_duration_left_ms_", n)
           half == Store("blink_duration_ms_", n)
           flag == Store("is_blinking_", TRUE)
<1>2. /\ over.field = "override_color_" /\ over.value = color
      /\ time.field = "effect_duration_left_ms_" /\ time.value = n
      /\ half.field = "blink_duration_ms_" /\ half.value = n
      /\ flag.field = "is_blinking_" /\ flag.value = TRUE
  BY DEF Store
<1>3. /\ left # {} /\ todo = <<left>> /\ left \subseteq {over, time, half, flag}
      /\ half \notin left => controller.blink_duration_ms_ > 0
      /\ time \notin left /\ BlinksOutlastUpdates => Lasts
  BY <1>1
<1>4. n \in Nat /\ n > 0 /\ UpdatePeriod_ms \in Nat
      /\ (BlinksOutlastUpdates => n > UpdatePeriod_ms)
  BY CallsAssumption, StatusLedAssumption DEF BlinksOutlastUpdates
<1>5. PICK step \in left :
        /\ StoreField /\ ~InitLed /\ ~ConnectHandler
        /\ ~timer.raised /\ UNCHANGED <<timer, led, mode, assertions>>
        /\ controller' = [controller EXCEPT ![step.field] = step.value]
        /\ IF step.field = "effect_duration_left_ms_"
           THEN astray' = (astray \/
                          (step.value = 0 /\ led.current_color_ # controller.base_color_))
           ELSE astray' = astray
        /\ IF left \ {step} = {} THEN todo' = << >>
           ELSE todo' = <<left \ {step}>> /\ ticked' = ticked
  BY <1>3, StoreOne
<1> DEFINE rest == left \ {step}
<1> HIDE DEF over, time, half, flag
<1>6. step \in {over, time, half, flag}
  BY <1>3
<1>7. astray' = astray
  BY <1>2, <1>4, <1>5, <1>6 DEF LedTypes
<1>8. /\ controller'.base_color_ = controller.base_color_
      /\ step = time => EffectTime' = n
      /\ step # time => EffectTime' = EffectTime
      /\ step = half => controller'.blink_duration_ms_ = n
      /\ step # half => controller'.blink_duration_ms_ = controller.blink_duration_ms_
  BY <1>2, <1>5, <1>6 DEF LedTypes, ControllerType, EffectTime
<1>9. half \notin rest => controller'.blink_duration_ms_ > 0
  BY <1>3, <1>4, <1>8
<1>10. time \notin rest /\ BlinksOutlastUpdates
         => EffectTime' > UpdatePeriod_ms \/ (EffectTime' > 0 /\ ~timer'.raised /\ ticked)
  BY <1>3, <1>4, <1>5, <1>8 DEF Lasts
<1>11. Settled'
  <2>1. EffectTime' = 0 => EffectTime = 0
    BY <1>4, <1>8
  <2> QED
    BY <1>5, <1>7, <1>8, <2>1 DEF StartingBlink, Settled, CurrentIsBase
<1>12. HandlerFits' /\ Lit(led') /\ mode' = "runs"
  BY <1>5 DEF HandlerFits
<1>13. CASE rest = {}
  <2>1. EffectTime \in Nat /\ EffectTime' \in Nat
    BY <1>4, <1>8 DEF LedTypes, ControllerType, EffectTime
  <2>2. BlinksOutlastUpdates => EffectTime' > 0
    BY <1>4, <1>10, <1>13, <2>1
  <2>3. Blinking'
    BY <1>9, <1>13, <2>2 DEF Blinking
  <2>4. todo' = << >>
    BY <1>5, <1>13
  <2> QED
    BY <1>11, <1>12, <2>3, <2>4 DEF RunsOn, InRuns, Idle
<1>14. CASE rest # {}
  <2>1. todo' = <<rest>> /\ ticked' = ticked
    BY <1>5, <1>14
  <2>2. rest \in SUBSET StoreStep /\ rest \subseteq {over, time, half, flag}
    BY <1>3
  <2>3. (timer.raised => ticked)'
    BY <1>5
  <2>4. time \notin rest /\ BlinksOutlastUpdates => Lasts'
    BY <1>10, <2>1 DEF Lasts
  <2> HIDE DEF rest
  <2>5. StartingBlink'
    BY <1>9, <1>11, <1>14, <2>1, <2>2, <2>3, <2>4 DEF StartingBlink, over, time, half, flag
  <2> QED
    BY <1>12, <2>5 DEF RunsOn, InRuns
<1> QED
  BY <1>13, <1>14

LEMMA StopGoesOn ==
  ASSUME LedTypes, TimerInv, HandlerFits, mode = "runs", Lit(led), StoppingBlink, Thread
  PROVE  RunsOn
<1>1. PICK left \in SUBSET StoreStep :
        /\ left # {} /\ todo = <<left>>
        /\ left \subseteq {Store("is_blinking_", FALSE), Store("effect_duration_left_ms_", 0)}
        /\ Store("is_blinking_", FALSE) \notin left => ~controller.is_blinking_
        /\ Store("effect_duration_left_ms_", 0) \notin left => EffectTime = 0
  BY DEF StoppingBlink
<1> DEFINE flag == Store("is_blinking_", FALSE)
           time == Store("effect_duration_left_ms_", 0)
<1>2. /\ time.field = "effect_duration_left_ms_" /\ time.value = 0
      /\ flag.field = "is_blinking_" /\ flag.value = FALSE
  BY DEF Store
<1>3. /\ left # {} /\ todo = <<left>> /\ left \subseteq {flag, time}
      /\ flag \notin left => ~controller.is_blinking_
      /\ time \notin left => EffectTime = 0
  BY <1>1
<1>4. PICK step \in left :
        /\ StoreField /\ ~InitLed /\ ~ConnectHandler
        /\ ~timer.raised /\ UNCHANGED <<timer, led, mode, assertions>>
        /\ controller' = [controller EXCEPT ![step.field] = step.value]
        /\ IF step.field = "effect_duration_left_ms_"
           THEN astray' = (astray \/
                          (step.value = 0 /\ led.current_color_ # controller.base_color_))
           ELSE astray' = astray
        /\ IF left \ {step} = {} THEN todo' = << >>
           ELSE todo' = <<left \ {step}>> /\ ticked' = ticked
  BY <1>3, StoreOne
<1> DEFINE rest == left \ {step}
<1> HIDE DEF time, flag
<1>5. step \in {time, flag}
  BY <1>3
<1>6. /\ controller'.base_color_ = controller.base_color_
      /\ step = time => EffectTime' = 0
      /\ step # time => EffectTime' = EffectTime
      /\ step = flag => ~controller'.is_blinking_
      /\ step # flag => controller'.is_blinking_ = controller.is_blinking_
  BY <1>2, <1>4, <1>5 DEF LedTypes, ControllerType, EffectTime
<1>7. Settled'
  <2>1. CASE step = time
    <3>1. ~astray' => ~astray /\ led.current_color_ = controller.base_color_
      BY <1>2, <1>4, <2>1
    <3> QED
      BY <1>4, <1>6, <3>1 DEF StoppingBlink, Settled, CurrentIsBase
  <2>2. CASE step # time
    <3>1. astray' = astray
      BY <1>2, <1>4, <1>5, <2>2
    <3> QED
      BY <1>4, <1>6, <2>2, <3>1 DEF StoppingBlink, Settled, CurrentIsBase
  <2> QED
    BY <2>1, <2>2
<1>8. flag \notin rest => ~controller'.is_blinking_
  BY <1>3, <1>6
<1>9. time \notin rest => EffectTime' = 0
  BY <1>3, <1>6
<1>10. HandlerFits' /\ Lit(led') /\ mode' = "runs"
  BY <1>4 DEF HandlerFits
<1>11. CASE rest = {}
  <2>1. todo' = << >> /\ Blinking'
    BY <1>4, <1>8, <1>11 DEF Blinking
  <2> QED
    BY <1>7, <1>10, <2>1 DEF RunsOn, InRuns, Idle
<1>12. CASE rest # {}
  <2>1. todo' = <<rest>>
    BY <1>4, <1>12
  <2>2. rest \in SUBSET StoreStep /\ rest \subseteq {flag, time}
    BY <1>3
  <2> HIDE DEF rest
  <2>3. StoppingBlink'
    BY <1>7, <1>8, <1>9, <1>12, <2>1, <2>2 DEF StoppingBlink, flag, time
  <2> QED
    BY <1>10, <2>3 DEF RunsOn, InRuns
<1> QED
  BY <1>11, <1>12

LEMMA RunsThread ==
  ASSUME LedTypes, TimerInv, HandlerFits, mode = "runs", InRuns, Thread
  PROVE  RunsOn
<1>1. ~Idle
  <2>1. Idle => \A what : ~HeadDoes(what)
    BY DEF Idle, HeadDoes
  <2> QED
    BY <2>1, ActionsDo DEF Thread, Boot, EnterMainLoop
<1> QED
  BY <1>1, BasingGoesOn, FlashingGoesOn, DimmingGoesOn, BlinkGoesOn, StopGoesOn DEF InRuns

\* The interrupt in the main loop.
LEMMA InterruptPaintsOver ==
  ASSUME LedTypes, TimerInv, periodicLedUpdateTimerISR, ColorUnderWay, NEW color, Painted(color)
  PROVE  Painted(color)'
BY InterruptUnderWay DEF Painted, TimerInv

LEMMA BasingInterrupted ==
  ASSUME LedTypes, TimerInv, Basing \/ Flashing, periodicLedUpdateTimerISR
  PROVE  Basing' \/ Flashing'
<1> TimerType
  BY DEF TimerInv
<1>1. Blinking'
  BY BlinkingStays DEF Basing, Flashing
<1>2. todo' = todo
  BY InterruptDoes
<1>3. ASSUME NEW color \in Colors, NEW s \in StoreStep, WritesColor(s),
             Painting(color, <<{s}>>) \/ (todo = <<{s}>> /\ Painted(color))
      PROVE  Painting(color, <<{s}>>)' \/ (todo' = <<{s}>> /\ Painted(color)')
  <2>1. {s} \in SUBSET ThreadStep
    BY SetsOfSteps
  <2>2. <<{s}>> \in Todo /\ <<{s}>> # << >> /\ Head(<<{s}>>) = {s}
    BY <2>1, OneLeft
  <2>3. CASE Painting(color, <<{s}>>)
    BY <2>2, <2>3, PaintInterrupted
  <2>4. CASE todo = <<{s}>> /\ Painted(color)
    <3>1. ColorUnderWay
      BY <1>3, <2>2, <2>4 DEF ColorUnderWay
    <3> QED
      BY <1>2, <2>4, <3>1, InterruptPaintsOver
  <2> QED
    BY <1>3, <2>3, <2>4
<1>4. CASE Basing
  <2>1. PICK color \in Colors :
          \/ Painting(color, <<{Store("base_color_", color)}>>)
          \/ todo = <<{Store("base_color_", color)}>> /\ Painted(color)
    BY <1>4 DEF Basing
  <2> DEFINE s == Store("base_color_", color)
  <2>2. s \in StoreStep /\ WritesColor(s)
    BY Stores DEF WritesColor, Store
  <2>3. Painting(color, <<{s}>>)' \/ (todo' = <<{s}>> /\ Painted(color)')
    BY <1>3, <2>1, <2>2
  <2> QED
    BY <1>1, <2>3 DEF Basing
<1>5. CASE Flashing
  <2>1. PICK color \in Colors, n \in FlashDurations :
          \/ Painting(color, <<{Store("effect_duration_left_ms_", n)}>>)
          \/ todo = <<{Store("effect_duration_left_ms_", n)}>> /\ Painted(color)
    BY <1>5 DEF Flashing
  <2> DEFINE s == Store("effect_duration_left_ms_", n)
  <2>2. n \in Nat
    BY CallsAssumption
  <2>3. s \in StoreStep /\ WritesColor(s)
    BY <2>2, Stores DEF WritesColor, Store
  <2>4. Painting(color, <<{s}>>)' \/ (todo' = <<{s}>> /\ Painted(color)')
    BY <1>3, <2>1, <2>3
  <2> QED
    BY <1>1, <2>4 DEF Flashing
<1> QED
  BY <1>4, <1>5

LEMMA DimmingInterrupted ==
  ASSUME LedTypes, TimerInv, Lit(led), Dimming, periodicLedUpdateTimerISR
  PROVE  Dimming'
<1> TimerType
  BY DEF TimerInv
<1>1. Blinking /\ Blinking'
  BY BlinkingStays DEF Dimming
<1>2. todo' = todo /\ controller'.base_color_ = controller.base_color_
  BY InterruptDoes
<1>3. ASSUME NEW percentage \in Percentages, todo = setBrightness(percentage), Settled
      PROVE  Dimming'
  <2>1. Settled'
    BY <1>1, <1>3, SettledStays
  <2>2. todo' = setBrightness(percentage)
    BY <1>2, <1>3
  <2> QED
    BY <1>1, <2>1, <2>2 DEF Dimming, setBrightness
<1>4. ASSUME NEW color \in Colors, Painting(color, << >>),
             BlinksOutlastUpdates /\ ~astray => CurrentIsBase,
             BlinksOutlastUpdates /\ ~astray => led.current_color_ = color
      PROVE  Dimming'
  <2>1. << >> \in Todo
    BY DEF Todo
  <2>2. Painting(color, << >>)' /\ ColorUnderWay
    BY <1>4, <2>1, PaintInterrupted, PaintIsUnderWay
  <2>3. astray' \/ (led' = led /\ astray' = astray /\ (EffectTime' = 0 => EffectTime = 0))
    BY <2>2, InterruptUnderWay
  <2> QED
    BY <1>1, <1>2, <1>4, <2>2, <2>3 DEF Dimming, CurrentIsBase
<1> QED
  BY <1>3, <1>4 DEF Dimming

LEMMA BlinkInterrupted ==
  ASSUME LedTypes, TimerInv, Lit(led), StartingBlink, periodicLedUpdateTimerISR
  PROVE  StartingBlink'
<1>1. PICK color \in OverrideColors, n \in BlinkDurations, left \in SUBSET StoreStep :
        /\ left # {} /\ todo = <<left>>
        /\ left \subseteq {Store("override_color_", color), Store("effect_duration_left_ms_", n),
                           Store("blink_duration_ms_", n), Store("is_blinking_", TRUE)}
        /\ Store("blink_duration_ms_", n) \notin left => controller.blink_duration_ms_ > 0
        /\ Store("effect_duration_left_ms_", n) \notin left /\ BlinksOutlastUpdates => Lasts
  BY DEF StartingBlink
<1> DEFINE time == Store("effect_duration_left_ms_", n)
           half == Store("blink_duration_ms_", n)
<1>2. /\ todo' = todo /\ ticked' = ticked /\ timer.raised /\ ~timer'.raised
      /\ controller'.blink_duration_ms_ = controller.blink_duration_ms_
      /\ controller'.base_color_ = controller.base_color_
      /\ Counted \/ Repainted
  BY InterruptDoes
<1>3. ticked /\ Settled
  BY <1>2 DEF StartingBlink
<1>4. time \in left => ColorUnderWay
  <2>1. left \in SUBSET ThreadStep
    BY SetsOfSteps
  <2>2. todo # << >> /\ Head(todo) = left
    BY <1>1, <2>1, OneLeft
  <2> QED
    BY <2>2 DEF ColorUnderWay, WritesColor, Store
<1>5. EffectTime \in Nat /\ EffectTime' \in Nat /\ UpdatePeriod_ms \in Nat
  BY StatusLedAssumption, InterruptCases, DeltaIsNat DEF LedTypes, TimerInv, ControllerType, EffectTime
<1>6. time \notin left /\ BlinksOutlastUpdates => Counted /\ EffectTime' > 0
  <2> SUFFICES ASSUME time \notin left, BlinksOutlastUpdates PROVE Counted /\ EffectTime' > 0
    OBVIOUS
  <2>1. EffectTime > UpdatePeriod_ms
    BY <1>1, <1>2 DEF Lasts
  <2> QED
    BY <1>2, <1>5, <2>1 DEF Counted, Repainted
<1>7. time \notin left /\ BlinksOutlastUpdates => Lasts'
  BY <1>2, <1>3, <1>6 DEF Lasts
<1>8. Settled'
  <2>1. CASE time \in left
    BY <1>3, <1>4, <2>1, SettledStays
  <2>2. CASE time \notin left
    BY <1>2, <1>3, <1>6, <2>2 DEF Settled, CurrentIsBase, Counted
  <2> QED
    BY <2>1, <2>2
<1> QED
  BY <1>1, <1>2, <1>7, <1>8 DEF StartingBlink

LEMMA StopInterrupted ==
  ASSUME LedTypes, TimerInv, Lit(led), StoppingBlink, periodicLedUpdateTimerISR
  PROVE  StoppingBlink'
<1>1. PICK left \in SUBSET StoreStep :
        /\ left # {} /\ todo = <<left>>
        /\ left \subseteq {Store("is_blinking_", FALSE), Store("effect_duration_left_ms_", 0)}
        /\ Store("is_blinking_", FALSE) \notin left => ~controller.is_blinking_
        /\ Store("effect_duration_left_ms_", 0) \notin left => EffectTime = 0
  BY DEF StoppingBlink
<1> DEFINE time == Store("effect_duration_left_ms_", 0)
<1>2. CASE time \in left
  <2>1. left \in SUBSET ThreadStep
    BY SetsOfSteps
  <2>2. todo # << >> /\ Head(todo) = left
    BY <1>1, <2>1, OneLeft
  <2>3. ColorUnderWay
    BY <1>2, <2>2 DEF ColorUnderWay, WritesColor, Store
  <2>4. Settled'
    BY <2>3, SettledStays DEF StoppingBlink
  <2>5. todo' = todo /\ controller'.is_blinking_ = controller.is_blinking_
    BY InterruptDoes
  <2> QED
    BY <1>1, <1>2, <2>4, <2>5 DEF StoppingBlink
<1>3. CASE time \notin left
  <2>1. UNCHANGED placeVars
    BY <1>1, <1>3, IdleInterrupt
  <2> QED
    BY <2>1, PlaceStays
<1> QED
  BY <1>2, <1>3

LEMMA RunsInterrupt ==
  ASSUME LedTypes, TimerInv, HandlerFits, InRuns, periodicLedUpdateTimerISR
  PROVE  InRuns' /\ mode' = mode
<1>1. Lit(led') /\ mode' = mode /\ todo' = todo
  BY InterruptDoes DEF InRuns
<1>2. Idle => Idle'
  BY <1>1, SettledStays, BlinkingStays DEF Idle, InRuns
<1> QED
  BY <1>1, <1>2, BasingInterrupted, DimmingInterrupted, BlinkInterrupted, StopInterrupted DEF InRuns

-----------------------------------------------------------------------------
(* The calls.                                                              *)
LEMMA IdleWhenDone ==
  ASSUME LedTypes, InRuns, todo = << >>
  PROVE  Idle
<1>1. ASSUME NEW color \in Colors, NEW rest \in Todo PROVE ~Painting(color, rest)
  BY PaintIsUnderWay
<1>2. << >> \in Todo
  BY DEF Todo
<1>3. \A S : <<S>> # << >>
  OBVIOUS
<1>4. ~Basing
  BY <1>1, <1>3, StoresAlone, CallsAssumption DEF Basing
<1>5. ~Flashing
  <2>1. FlashDurations \subseteq Nat /\ \E color \in Colors : TRUE
    BY CallsAssumption, NamedColors
  <2> QED
    BY <1>1, <1>3, <2>1, StoresAlone DEF Flashing
<1>6. ~Dimming
  BY <1>1, <1>2, <1>3 DEF Dimming, setBrightness
<1>7. ~StartingBlink /\ ~StoppingBlink
  BY <1>3 DEF StartingBlink, StoppingBlink
<1> QED
  BY <1>4, <1>5, <1>6, <1>7 DEF InRuns

LEMMA CallKeeps ==
  ASSUME NEW name, NEW steps, Call(name, steps)
  PROVE  /\ todo' = steps /\ UNCHANGED <<led, controller, mode, assertions, timer>>
         /\ ~timer.raised /\ todo = << >> /\ mode = "runs"
BY DEF Call, swVars

LEMMA RunsCall ==
  ASSUME LedTypes, TimerInv, HandlerFits, InRuns, Calls
  PROVE  RunsOn
<1> TimerType
  BY DEF TimerInv
<1>1. /\ todo = << >> /\ mode = "runs" /\ ~timer.raised
      /\ UNCHANGED <<led, controller, mode, assertions, timer>>
  BY CallKeeps DEF Calls, SetConstantBaseColor, FlashOverrideColor, StartOverrideColorBlinking,
     StopOverrideColorBlinking, SetBrightness
<1>2. Settled /\ Blinking /\ Lit(led)
  BY <1>1, IdleWhenDone DEF Idle, InRuns
<1>3. HandlerFits' /\ Lit(led') /\ mode' = "runs"
  BY <1>1, <1>2 DEF HandlerFits
<1>4. Blinking' /\ (astray' = astray => Settled')
  BY <1>1, <1>2 DEF Blinking, Settled, CurrentIsBase, EffectTime
<1>5. CASE SetConstantBaseColor
  <2>1. PICK color \in BaseColors : Call("base", setConstantBaseColor(color))
    BY <1>5 DEF SetConstantBaseColor
  <2>2. color \in Colors
    BY CallsAssumption
  <2>3. todo' = Paint1(color, <<{Store("base_color_", color)}>>)
    BY <2>1, <2>2, CallKeeps, StoresAlone, PaintIsSetColor DEF setConstantBaseColor
  <2>4. Basing'
    BY <1>4, <2>2, <2>3 DEF Basing, Painting
  <2> QED
    BY <1>3, <2>4 DEF RunsOn, InRuns
<1>6. CASE FlashOverrideColor
  <2>1. PICK color \in OverrideColors, n \in FlashDurations :
          Call("flash", flashOverrideColor(color, n))
    BY <1>6 DEF FlashOverrideColor
  <2>2. color \in Colors /\ n \in Nat
    BY CallsAssumption
  <2>3. todo' = Paint1(color, <<{Store("effect_duration_left_ms_", n)}>>)
    BY <2>1, <2>2, CallKeeps, StoresAlone, PaintIsSetColor DEF flashOverrideColor
  <2>4. Flashing'
    BY <1>4, <2>1, <2>2, <2>3 DEF Flashing, Painting
  <2> QED
    BY <1>3, <2>4 DEF RunsOn, InRuns
<1>7. CASE StartOverrideColorBlinking
  <2>1. PICK color \in OverrideColors, n \in BlinkDurations :
          Call("blink", startOverrideColorBlinking(color, n))
    BY <1>7 DEF StartOverrideColorBlinking
  <2>2. color \in Colors /\ n \in Nat /\ astray' = astray
    BY <1>7, CallsAssumption DEF StartOverrideColorBlinking
  <2> DEFINE over == Store("override_color_", color)
             time == Store("effect_duration_left_ms_", n)
             half == Store("blink_duration_ms_", n)
             flag == Store("is_blinking_", TRUE)
             left == {over, time, half, flag}
  <2>3. todo' = <<left>>
    BY <2>1, CallKeeps DEF startOverrideColorBlinking
  <2>4. over \in StoreStep /\ time \in StoreStep /\ half \in StoreStep /\ flag \in StoreStep
    BY <2>2, Stores
  <2> HIDE DEF over, time, half, flag
  <2>5. left \in SUBSET StoreStep /\ left # {} /\ half \in left /\ time \in left
    BY <2>4
  <2> HIDE DEF left
  <2>6. left \subseteq {over, time, half, flag}
    BY DEF left
  <2>7. ~timer'.raised
    BY <1>1
  <2>8. StartingBlink'
    BY <1>4, <2>1, <2>2, <2>3, <2>5, <2>6, <2>7 DEF StartingBlink, over, time, half, flag
  <2> QED
    BY <1>3, <2>8 DEF RunsOn, InRuns
<1>8. CASE StopOverrideColorBlinking
  <2>1. Call("stop", stopOverrideColorBlinking) /\ astray' = astray
    BY <1>8 DEF StopOverrideColorBlinking
  <2> DEFINE flag == Store("is_blinking_", FALSE)
             time == Store("effect_duration_left_ms_", 0)
             left == {flag, time}
  <2>2. todo' = <<left>>
    BY <2>1, CallKeeps DEF stopOverrideColorBlinking
  <2>3. flag \in StoreStep /\ time \in StoreStep
    BY Stores
  <2> HIDE DEF flag, time
  <2>4. left \in SUBSET StoreStep /\ left # {} /\ flag \in left /\ time \in left
    BY <2>3
  <2> HIDE DEF left
  <2>5. left \subseteq {flag, time}
    BY DEF left
  <2>6. StoppingBlink'
    BY <1>4, <2>1, <2>2, <2>4, <2>5 DEF StoppingBlink, flag, time
  <2> QED
    BY <1>3, <2>6 DEF RunsOn, InRuns
<1>9. CASE SetBrightness
  <2>1. PICK percentage \in Percentages : Call("brightness", setBrightness(percentage))
    BY <1>9 DEF SetBrightness
  <2>2. astray' = astray
    BY <1>9 DEF SetBrightness
  <2>3. todo' = setBrightness(percentage)
    BY <2>1, CallKeeps
  <2>4. Dimming'
    BY <1>4, <2>2, <2>3 DEF Dimming, setBrightness
  <2> QED
    BY <1>3, <2>4 DEF RunsOn, InRuns
<1> QED
  BY <1>5, <1>6, <1>7, <1>8, <1>9 DEF Calls

\* A step of the clock: while a blink is started it happens once at most.
LEMMA BlinkTicks ==
  ASSUME StartingBlink, Tick \/ DebugDrained \/ UNCHANGED vars
  PROVE  StartingBlink'
<1>1. PICK color \in OverrideColors, n \in BlinkDurations, left \in SUBSET StoreStep :
        /\ left # {} /\ todo = <<left>>
        /\ left \subseteq {Store("override_color_", color), Store("effect_duration_left_ms_", n),
                           Store("blink_duration_ms_", n), Store("is_blinking_", TRUE)}
        /\ Store("blink_duration_ms_", n) \notin left => controller.blink_duration_ms_ > 0
        /\ Store("effect_duration_left_ms_", n) \notin left /\ BlinksOutlastUpdates => Lasts
  BY DEF StartingBlink
<1>2. UNCHANGED placeVars
  BY DEF Tick, DebugDrained, vars, swVars, placeVars
<1>3. Settled' /\ todo' = todo /\ controller' = controller
  BY <1>2, PlaceStays DEF StartingBlink, placeVars
<1>4. ~Waits /\ todo # << >>
  <2>1. left \in SUBSET ThreadStep
    BY SetsOfSteps
  <2>2. todo # << >> /\ Head(todo) = left
    BY <1>1, <2>1, OneLeft
  <2>3. \A s \in StoreStep : s.do = "store"
    BY DEF StoreStep, Store
  <2>4. [do |-> "flush"].do = "flush"
    OBVIOUS
  <2> QED
    BY <1>1, <2>2, <2>3, <2>4 DEF Waits
<1>5. (timer'.raised => ticked') /\ (Lasts => Lasts')
  <2>1. CASE Tick
    <3>1. ticked' /\ ~ticked
      BY <1>4, <2>1 DEF Tick
    <3> QED
      BY <1>3, <3>1 DEF Lasts, EffectTime
  <2>2. CASE DebugDrained \/ UNCHANGED vars
    <3>1. timer' = timer /\ ticked' = ticked
      BY <2>2 DEF DebugDrained, vars
    <3> QED
      BY <1>3, <3>1 DEF Lasts, EffectTime, StartingBlink
  <2> QED
    BY <2>1, <2>2
<1> QED
  BY <1>1, <1>3, <1>5 DEF StartingBlink

LEMMA PlaceInvInitially == Init => PlaceInv
<1> SUFFICES ASSUME Init PROVE PlaceInv
  OBVIOUS
<1>1. /\ todo = BootInit /\ mode = "boots" /\ controller = Controller
      /\ assertions = AssertState
  BY MainIsBoot DEF Init
<1>2. /\ EffectTime = 0 /\ ~controller.is_blinking_
  BY <1>1 DEF Controller, EffectTime
<1>3. HandlerFits /\ assertions.handler = nullptr
  BY <1>1 DEF HandlerFits, AssertState, nullptr
<1> QED
  BY <1>1, <1>2, <1>3 DEF PlaceInv, InBoots

\* Nothing of the thread's moves a firmware that has halted, nor the interrupt.
LEMMA HaltedStays ==
  ASSUME mode = "halted", todo = << >>, [Next]_vars
  PROVE  UNCHANGED placeVars
<1>1. \A what : ~HeadDoes(what)
  BY DEF HeadDoes
<1>2. ~Thread
  BY <1>1, ActionsDo DEF Thread, Boot, EnterMainLoop
<1>3. ~Calls /\ ~AssertionFails /\ ~Tick /\ ~periodicLedUpdateTimerISR
  BY DEF Calls, SetConstantBaseColor, FlashOverrideColor, StartOverrideColorBlinking,
     StopOverrideColorBlinking, SetBrightness, Call, AssertionFails, Tick, periodicLedUpdateTimerISR
<1> QED
  BY <1>2, <1>3 DEF Next, DebugDrained, vars, placeVars

LEMMA PlaceInvStep ==
  ASSUME LedTypes, TimerInv, PlaceInv, [Next]_vars
  PROVE  PlaceInv'
<1>1. /\ HandlerFits /\ mode \in {"boots", "runs", "fails", "halted"}
      /\ mode = "boots" => InBoots
      /\ mode = "runs" => InRuns
      /\ mode = "fails" => InFails /\ Blinking
      /\ mode = "halted" => todo = << >> /\ Blinking /\ (assertions.handler # nullptr => RedSet)
  BY DEF PlaceInv, LedTypes
<1>2. UNCHANGED placeVars => (Blinking => Blinking')
  BY DEF placeVars, Blinking, EffectTime
<1>3. CASE mode = "halted"
  <2>1. UNCHANGED placeVars
    BY <1>1, <1>3, HaltedStays
  <2> QED
    BY <1>1, <1>2, <1>3, <2>1, PlaceStays DEF PlaceInv, placeVars
<1>4. CASE mode # "halted" /\ Thread
  <2>1. CASE mode = "boots"
    BY <1>1, <1>4, <2>1, BootsThread DEF PlaceInv
  <2>2. CASE mode = "runs"
    BY <1>1, <1>4, <2>2, RunsThread DEF PlaceInv, RunsOn
  <2>3. CASE mode = "fails"
    <3>1. FailsOn
      BY <1>1, <1>4, <2>3, FailsThread
    <3>2. Blinking'
      BY <1>1, <2>3, <3>1 DEF FailsOn, BlinkingKept, Blinking
    <3> QED
      BY <3>1, <3>2 DEF PlaceInv, FailsOn
  <2> QED
    BY <1>1, <1>4, <2>1, <2>2, <2>3
<1>5. CASE periodicLedUpdateTimerISR
  <2>1. ~InitLed /\ ~ConnectHandler /\ TimerType
    BY <1>5, InterruptDoes DEF InitLed, ConnectHandler, BootStep, ThreadDoes, TimerInv
  <2>2. HandlerFits'
    BY <1>1, <2>1, HandlerStays
  <2>3. CASE mode = "boots"
    BY <1>1, <1>5, <2>2, <2>3, BootsInterrupt DEF PlaceInv
  <2>4. CASE mode = "runs"
    BY <1>1, <1>5, <2>2, <2>4, RunsInterrupt DEF PlaceInv
  <2>5. CASE mode = "fails"
    BY <1>1, <1>5, <2>2, <2>5, FailsInterrupt, BlinkingStays DEF PlaceInv
  <2> QED
    BY <1>1, <1>3, <2>3, <2>4, <2>5
<1>6. CASE Calls
  <2>1. mode = "runs"
    BY <1>6, CallKeeps DEF Calls, SetConstantBaseColor, FlashOverrideColor,
       StartOverrideColorBlinking, StopOverrideColorBlinking, SetBrightness
  <2> QED
    BY <1>1, <1>6, <2>1, RunsCall DEF PlaceInv, RunsOn
<1>7. CASE AssertionFails
  <2>1. mode \in {"boots", "runs"} /\ (mode = "runs" => todo = << >>) /\ controller' = controller
    BY <1>7 DEF AssertionFails
  <2>2. Blinking
    BY <1>1, <2>1, IdleWhenDone DEF InBoots, Idle, Blinking
  <2>3. Blinking'
    BY <2>1, <2>2 DEF Blinking, EffectTime
  <2> QED
    BY <1>1, <1>7, <2>3, FailBegins DEF PlaceInv
<1>8. CASE Tick \/ DebugDrained \/ UNCHANGED vars
  <2>1. UNCHANGED placeVars
    BY <1>8 DEF Tick, DebugDrained, vars, swVars, placeVars
  <2>2. mode' = mode /\ led' = led /\ todo' = todo /\ assertions' = assertions
    BY <2>1 DEF placeVars
  <2>3. InRuns => InRuns'
    BY <1>8, <2>1, <2>2, PlaceStays, BlinkTicks DEF InRuns
  <2> QED
    BY <1>1, <1>2, <2>1, <2>2, <2>3, PlaceStays DEF PlaceInv
<1> QED
  BY <1>3, <1>4, <1>5, <1>6, <1>7, <1>8 DEF Next

\* What holds at every place of the thread, between any two of its steps.
THEOREM PlaceInvHolds == Spec => []PlaceInv
BY TimerInvHolds, LedTypesHold, PlaceInvInitially, PlaceInvStep, PTL DEF Spec

\* A controller that blinks goes on blinking, whenever the interrupt comes between
\* the stores of startOverrideColorBlinking, if no blink is as short as the period
\* of the updates.
THEOREM BlinksGoOn ==
  ASSUME BlinksOutlastUpdates
  PROVE  Spec => []BlinkingGoesOn
<1>1. LedTypes /\ PlaceInv => BlinkingGoesOn
  <2> SUFFICES ASSUME LedTypes, PlaceInv, todo = << >>, controller.is_blinking_
               PROVE  EffectTime > 0
    BY DEF BlinkingGoesOn
  <2>1. mode # "boots"
    BY DEF PlaceInv, InBoots
  <2>2. mode = "runs" => Blinking
    BY IdleWhenDone DEF PlaceInv, Idle
  <2> QED
    BY <2>1, <2>2 DEF PlaceInv, Blinking, LedTypes
<1> QED
  BY <1>1, PlaceInvHolds, LedTypesHold, PTL

\* With no effect left the LED shows the base colour after any sequence of calls,
\* with the interrupt between any of their steps, if no blink is as short as the
\* period of the updates; astray says when the interrupt and the thread wrote at once.
THEOREM ColourSettles ==
  ASSUME BlinksOutlastUpdates
  PROVE  Spec => []SettledColour
<1>1. LedTypes /\ PlaceInv => SettledColour
  BY IdleWhenDone DEF PlaceInv, Idle, Settled, CurrentIsBase, SettledColour
<1> QED
  BY <1>1, PlaceInvHolds, LedTypesHold, PTL

\* A firmware that halted shows red: in whatever state of the boot, of an effect or
\* of the brightness the assertion failed, and at every assert level.
THEOREM FailedAssertionShowsRed == Spec => []AssertionShowsRed
<1>1. PlaceInv => AssertionShowsRed
  BY DEF PlaceInv, RedSet, AssertionShowsRed
<1> QED
  BY <1>1, PlaceInvHolds, PTL

-----------------------------------------------------------------------------
(* The accuracy of the effects: the timer runs before the first of them.   *)

\* The places of the boot before the timer is started.
BeforeTimer ==
  \/ todo \in {BootInit, BootOn}
  \/ Lit(led) /\ (todo \in {BootBright, BootTimer} \/ \E color \in Colors : Painting(color, BootTimer))

TimerGoes ==
  /\ mode = "boots" => Started \/ BeforeTimer
  /\ mode = "runs" => Started
  /\ EffectTime > 0 => Started

LEMMA StartedStays ==
  ASSUME TimerInv, [Next]_vars, Started
  PROVE  Started'
<1>1. timer \in [period : {0, Period}, start : Clock, alarm : Clock,
                 armed : BOOLEAN, raised : BOOLEAN]
  BY DEF TimerInv, TimerType
<1>2. CASE UNCHANGED timerVars
  BY <1>2 DEF timerVars, Started
<1>3. CASE StartTimer
  BY <1>1, <1>3 DEF StartTimer, startTimer, SetAlarm, configureInMilliseconds,
     configureInMicroseconds, Started
<1>4. CASE Tick
  BY <1>4, TickElapses
<1>5. CASE periodicLedUpdateTimerISR
  BY <1>5, InterruptElapses
<1> QED
  BY <1>2, <1>3, <1>4, <1>5, TimerSteps

LEMMA BeforeTimerGoesOn ==
  ASSUME LedTypes, TimerInv, BeforeTimer, Thread
  PROVE  mode' = mode /\ (BeforeTimer' \/ Started')
<1> TimerType
  BY DEF TimerInv
<1>1. /\ [do |-> "init_led"].do = "init_led" /\ [do |-> "turn_on"].do = "turn_on"
      /\ [do |-> "start_timer"].do = "start_timer" /\ BrightnessStep(5).do = "brightness"
  BY DEF BrightnessStep
<1>2. CASE todo = BootInit
  <2>1. InitLed
    BY <1>1, <1>2, BootParts, ThreadMoves
  <2> QED
    BY <1>2, <2>1, BootParts DEF InitLed, BootStep, Goes, swVars, BeforeTimer
<1>3. CASE todo = BootOn
  <2>1. TurnOn
    BY <1>1, <1>3, BootParts, ThreadMoves
  <2> QED
    BY <1>3, <2>1, BootParts, TurnOnIsType DEF TurnOn, BootStep, Goes, swVars, LedTypes, BeforeTimer
<1>4. CASE Lit(led) /\ todo = BootBright
  <2>1. WriteBrightness
    BY <1>1, <1>4, BootParts, ThreadMoves
  <2>2. PICK color : color = led.current_color_
    OBVIOUS
  <2>3. color \in Colors
    BY <2>2 DEF LedTypes, Led
  <2>4. todo' = SetColorSteps(color) \o BootTimer /\ mode' = mode
    BY <1>4, <2>1, <2>2, BootParts DEF WriteBrightness, Goes, swVars
  <2>5. todo' = Paint1(color, BootTimer)
    BY <2>3, <2>4, PaintIsSetColor, BootParts
  <2>6. Lit(led')
    <3>1. ~InitLed /\ [Next]_vars
      BY <1>1, <1>4, BootParts, NoSetup DEF Next
    <3> QED
      BY <1>4, <3>1, LitStays
  <2> QED
    BY <2>3, <2>4, <2>5, <2>6 DEF Painting, BeforeTimer
<1>5. CASE Lit(led) /\ todo = BootTimer
  <2>1. StartTimer
    BY <1>1, <1>5, BootParts, ThreadMoves
  <2>2. timer'.armed
    BY <2>1 DEF StartTimer, startTimer, SetAlarm, configureInMilliseconds,
       configureInMicroseconds, TimerType
  <2> QED
    BY <2>1, <2>2 DEF StartTimer, swVars, Started
<1>6. CASE Lit(led) /\ \E color \in Colors : Painting(color, BootTimer)
  BY <1>6, PaintThread, BootParts DEF BeforeTimer, paintFrame
<1> QED
  BY <1>2, <1>3, <1>4, <1>5, <1>6 DEF BeforeTimer

LEMMA TimerGoesStep ==
  ASSUME LedTypes, TimerInv, PlaceInv, TimerGoes, [Next]_vars
  PROVE  TimerGoes'
<1>1. Started => TimerGoes'
  BY StartedStays DEF TimerGoes
<1>2. ASSUME ~Started PROVE TimerGoes'
  <2>1. EffectTime = 0 /\ mode \in {"boots", "fails", "halted"}
    BY <1>2 DEF TimerGoes, LedTypes, ControllerType, EffectTime
  <2>2. ~periodicLedUpdateTimerISR /\ ~Calls
    BY <1>2, <2>1, CallKeeps DEF Started, periodicLedUpdateTimerISR, Calls, SetConstantBaseColor,
       FlashOverrideColor, StartOverrideColorBlinking, StopOverrideColorBlinking, SetBrightness
  <2>3. CASE Thread /\ mode = "boots"
    <3>1. mode' = "boots" /\ (BeforeTimer' \/ Started')
      BY <1>2, <2>3, BeforeTimerGoesOn DEF TimerGoes
    <3>2. EffectTime' = 0
      BY <2>3, <3>1, BootsThread DEF PlaceInv, InBoots
    <3> QED
      BY <3>1, <3>2 DEF TimerGoes
  <2>4. CASE Thread /\ mode = "fails"
    <3>1. EffectTime' = 0 /\ mode' \in {"fails", "halted"}
      BY <2>1, <2>4, FailsThread DEF PlaceInv, FailsOn, BlinkingKept
    <3> QED
      BY <3>1 DEF TimerGoes
  <2>5. CASE Thread /\ mode = "halted"
    BY <2>5, <2>1, HaltedStays DEF PlaceInv, placeVars, TimerGoes, EffectTime
  <2>6. CASE AssertionFails
    BY <2>1, <2>6 DEF AssertionFails, TimerGoes, EffectTime
  <2>7. CASE Tick \/ DebugDrained \/ UNCHANGED vars
    <3>1. UNCHANGED <<mode, todo, led, controller, astray>>
      BY <2>7 DEF Tick, DebugDrained, vars, swVars
    <3>2. BeforeTimer => BeforeTimer'
      BY <3>1 DEF BeforeTimer, Painting
    <3> QED
      BY <1>2, <2>1, <3>1, <3>2 DEF TimerGoes, EffectTime
  <2> QED
    BY <2>1, <2>2, <2>3, <2>4, <2>5, <2>6, <2>7 DEF Next
<1> QED
  BY <1>1, <1>2

LEMMA TimerGoesInitially == Init => TimerGoes
BY MainIsBoot DEF Init, TimerGoes, BeforeTimer, EffectTime, Controller

-----------------------------------------------------------------------------
(* The accuracy of the effects: the age of an effect.                      *)

\* The age of an effect is the time counted off it and the time elapsed since
\* the last update, but for the time elapsed when it was set.
AgeFits ==
  /\ age \in Nat
  /\ EffectTime > 0 =>
       /\ age <= (asked - EffectTime) * 1000 + Elapsed
       /\ age >= (asked - EffectTime) * 1000 + Elapsed - Period - MaxLatency

effectVars == <<controller.effect_duration_left_ms_, age, asked>>

LEMMA EffectSteps ==
  ASSUME [Next]_vars
  PROVE  UNCHANGED effectVars \/ StoreField \/ Tick \/ periodicLedUpdateTimerISR
<1>1. CASE UNCHANGED vars
  BY <1>1 DEF vars, effectVars
<1>2. CASE Boot
  BY <1>2 DEF Boot, InitLed, TurnOn, StartTimer, ConnectPrint, SetReaction, ConnectHandler,
              EnterMainLoop, effects, effectVars
<1>3. CASE WriteLevel \/ WriteCurrentColor \/ WriteBrightness
  BY <1>3 DEF WriteLevel, WriteCurrentColor, WriteBrightness, effects, effectVars
<1>4. CASE PrintMessage \/ Flush \/ Halt
  BY <1>4 DEF PrintMessage, Flush, Halt, effects, effectVars
<1>5. CASE Calls
  BY <1>5 DEF Calls, SetConstantBaseColor, FlashOverrideColor, StartOverrideColorBlinking,
              StopOverrideColorBlinking, SetBrightness, Call, effects, effectVars
<1>6. CASE AssertionFails \/ DebugDrained
  BY <1>6 DEF AssertionFails, DebugDrained, effects, effectVars
<1> QED
  BY <1>1, <1>2, <1>3, <1>4, <1>5, <1>6 DEF Next, Thread

\* A stored time is all left, and has no age yet.
LEMMA TimeStored ==
  ASSUME LedTypes, StoreField
  PROVE  /\ UNCHANGED timerVars
         /\ UNCHANGED effectVars \/ (age' = 0 /\ EffectTime' = asked')
<1>1. PICK step \in Steps :
        /\ controller' = [controller EXCEPT ![step.field] = step.value]
        /\ IF step.field = "effect_duration_left_ms_" THEN asked' = step.value /\ age' = 0
           ELSE UNCHANGED effects
        /\ UNCHANGED timerVars
  BY DEF StoreField, timerVars
<1>2. controller \in ControllerType
  BY DEF LedTypes
<1>3. CASE step.field = "effect_duration_left_ms_"
  BY <1>1, <1>2, <1>3 DEF ControllerType, EffectTime
<1>4. CASE step.field # "effect_duration_left_ms_"
  BY <1>1, <1>2, <1>4 DEF ControllerType, effects, effectVars
<1> QED
  BY <1>1, <1>3, <1>4

\* The interrupt counts a period off an effect with more than that left;
\* otherwise its time ran out, and it ends or is asked for once more.
LEMMA InterruptTimes ==
  ASSUME LedTypes, TimerInv, periodicLedUpdateTimerISR, EffectTime > 0
  PROVE  \/ /\ EffectTime > UpdatePeriod_ms /\ ~RanOut(controller, controller')
            /\ EffectTime' = EffectTime - UpdatePeriod_ms /\ age' = age /\ asked' = asked
         \/ /\ EffectTime <= UpdatePeriod_ms /\ RanOut(controller, controller')
            /\ age' = 0 /\ EffectTime' = asked'
<1>1. /\ controller \in ControllerType /\ Delta = UpdatePeriod_ms
      /\ InterruptCounts \/ \E color \in Colors : InterruptPaints(color)
  BY InterruptCases, DeltaIsNat, DeltaIsPeriod, InterruptDoes DEF LedTypes, TimerInv
<1>2. IF RanOut(controller, controller')
        THEN /\ age' = 0
             /\ asked' = IF controller.is_blinking_ THEN controller.blink_duration_ms_ ELSE 0
        ELSE UNCHANGED effects
  BY DEF periodicLedUpdateTimerISR
<1>3. UpdatePeriod_ms \in Nat \ {0} /\ EffectTime \in Nat
  BY <1>1, StatusLedAssumption DEF ControllerType, EffectTime
<1>4. CASE InterruptCounts
  <2>1. /\ EffectTime > UpdatePeriod_ms
        /\ controller' = [controller EXCEPT !.effect_duration_left_ms_ = @ - UpdatePeriod_ms]
    BY <1>1, <1>3, <1>4 DEF InterruptCounts, CountsDown, EffectTime
  <2>2. /\ EffectTime' = EffectTime - UpdatePeriod_ms /\ EffectTime' # 0
        /\ controller'.blink_state_ = controller.blink_state_
    BY <1>1, <1>3, <2>1 DEF ControllerType, EffectTime
  <2>3. ~RanOut(controller, controller')
    BY <2>2 DEF RanOut, EffectTime
  <2> QED
    BY <1>2, <2>1, <2>2, <2>3 DEF effects
<1>5. ASSUME NEW color \in Colors, InterruptPaints(color)
      PROVE  /\ EffectTime <= UpdatePeriod_ms /\ RanOut(controller, controller')
             /\ age' = 0 /\ EffectTime' = asked'
  <2>1. EffectTime <= UpdatePeriod_ms
    BY <1>1, <1>3, <1>5 DEF InterruptPaints, Toggles, Finishes, EffectTime
  <2>2. CASE Toggles(controller, controller', Delta)
    <3>1. /\ controller'.blink_state_ # controller.blink_state_ /\ controller.is_blinking_
          /\ EffectTime' = controller.blink_duration_ms_
      BY <1>1, <2>2 DEF Toggles, ControllerType, EffectTime
    <3>2. RanOut(controller, controller')
      BY <3>1 DEF RanOut, EffectTime
    <3> QED
      BY <1>2, <2>1, <3>1, <3>2
  <2>3. CASE Finishes(controller, controller', Delta)
    <3>1. ~controller.is_blinking_ /\ EffectTime' = 0
      BY <1>1, <2>3 DEF Finishes, ControllerType, EffectTime
    <3>2. RanOut(controller, controller')
      BY <3>1 DEF RanOut, EffectTime
    <3> QED
      BY <1>2, <2>1, <3>1, <3>2
  <2> QED
    BY <1>5, <2>2, <2>3 DEF InterruptPaints
<1> QED
  BY <1>1, <1>4, <1>5

LEMMA ElapsedInRangeAfter ==
  (TimerInv /\ Started => Elapsed \in 0..Period + MaxLatency)'
<1>1. TimerInv /\ Started => Elapsed \in 0..Period + MaxLatency
  BY ElapsedInRange
<1> QED
  BY <1>1, PTL

\* The timer is started once: only the boot has that step.
LEMMA StartsInBoot ==
  ASSUME LedTypes, PlaceInv, StartTimer
  PROVE  mode = "boots"
<1> DEFINE Starts == HeadDoes("start_timer")
<1>1. Starts
  BY ActionsDo
<1> HIDE DEF Starts
<1>2. ASSUME NEW color \in Colors, NEW rest \in Todo, Painting(color, rest) PROVE ~Starts
  BY <1>2, PaintHead DEF Starts, HeadDoes
<1>3. ASSUME NEW S \in SUBSET StoreStep, todo # << >>, Head(todo) = S PROVE ~Starts
  <2>1. \A s \in StoreStep : s.do = "store"
    BY DEF StoreStep, Store
  <2> QED
    BY <1>3, <2>1 DEF Starts, HeadDoes
<1>4. ASSUME NEW S \in SUBSET StoreStep, todo = <<S>> PROVE ~Starts
  BY <1>3, <1>4, OneLeft, SetsOfSteps
<1>5. mode # "runs"
  <2>1. ~Idle
    BY <1>1 DEF Idle, Starts, HeadDoes
  <2>2. ~Basing
    BY <1>1, <1>2, <1>4, StoresAlone, Stores DEF Basing
  <2>3. ~Flashing
    BY <1>1, <1>2, <1>4, StoresAlone, Stores, CallsAssumption DEF Flashing
  <2>4. ~Dimming
    <3>1. << >> \in Todo
      BY DEF Todo
    <3>2. \A percentage : todo = setBrightness(percentage) => ~Starts
      BY DEF setBrightness, Starts, HeadDoes
    <3> QED
      BY <1>1, <1>2, <3>1, <3>2 DEF Dimming
  <2>5. ~StartingBlink /\ ~StoppingBlink
    BY <1>1, <1>4 DEF StartingBlink, StoppingBlink
  <2> QED
    BY <2>1, <2>2, <2>3, <2>4, <2>5 DEF PlaceInv, InRuns
<1>6. mode # "fails"
  <2>1. ASSUME NEW what \in {"print", "flush", "halt"}, todo # << >>, Head(todo) = {[do |-> what]}
        PROVE  ~Starts
    <3>1. [do |-> what].do = what
      OBVIOUS
    <3> QED
      BY <2>1, <3>1 DEF Starts, HeadDoes
  <2>2. ASSUME NEW rest \in {FailFlush, FailHalt} PROVE ~Reddening(rest)
    <3>1. /\ rest \in Todo /\ RedStore(rest) \in Todo /\ RedStore(rest) # << >>
          /\ Head(RedStore(rest)) = {Store("base_color_", K_RED)}
      BY FailParts
    <3>2. ~Painting(K_RED, RedStore(rest))
      BY <1>1, <1>2, <3>1, NamedColors
    <3>3. todo # RedStore(rest)
      BY <1>1, <1>3, <3>1, Stores, NamedColors
    <3>4. todo # rest
      BY <1>1, <2>1, FailParts
    <3> QED
      BY <3>2, <3>3, <3>4 DEF Reddening
  <2>3. todo \notin {FailPrint, FailFlush, FailHalt, RedPrint, RedFlush}
    BY <1>1, <2>1, FailParts
  <2> QED
    BY <2>2, <2>3 DEF PlaceInv, InFails
<1>7. mode # "halted"
  BY <1>1 DEF PlaceInv, Starts, HeadDoes
<1> QED
  BY <1>5, <1>6, <1>7 DEF LedTypes

LEMMA AgeFitsStep ==
  ASSUME LedTypes, TimerInv, PlaceInv, TimerGoes, AgeFits, [Next]_vars, LedTypes', TimerInv', TimerGoes'
  PROVE  AgeFits'
<1>1. /\ EffectTime \in Nat /\ EffectTime' \in Nat /\ asked \in Nat /\ asked' \in Nat /\ age \in Nat
      /\ Period = UpdatePeriod_ms * 1000 /\ UpdatePeriod_ms \in Nat
  BY StatusLedAssumption DEF LedTypes, ControllerType, EffectTime, AgeFits, Period
<1>2. /\ EffectTime > 0 => Started /\ Elapsed \in 0..Period + MaxLatency
      /\ EffectTime' > 0 => Started' /\ Elapsed' \in 0..Period + MaxLatency
  BY ElapsedInRange, ElapsedInRangeAfter DEF TimerGoes
<1>3. ASSUME age' = 0, EffectTime' = asked' PROVE AgeFits'
  BY <1>1, <1>2, <1>3, TwoPeriodsFit DEF AgeFits
<1>4. CASE UNCHANGED effectVars /\ UNCHANGED timerVars
  <2>1. Elapsed' = Elapsed
    BY <1>4 DEF timerVars, Elapsed
  <2> QED
    BY <1>4, <2>1 DEF AgeFits, effectVars, EffectTime
<1>5. CASE UNCHANGED effectVars /\ StartTimer
  <2>1. EffectTime = 0
    BY <1>5, StartsInBoot DEF PlaceInv, InBoots
  <2> QED
    BY <1>1, <1>5, <2>1 DEF AgeFits, effectVars, EffectTime
<1>6. CASE Tick
  <2>1. /\ age' = IF EffectTime > 0 THEN age + ClockStep ELSE 0
        /\ EffectTime' = EffectTime /\ asked' = asked
    BY <1>6 DEF Tick, EffectTime
  <2>2. EffectTime > 0 => Elapsed' = Elapsed + ClockStep
    BY <1>2, <1>6, TickElapses
  <2> QED
    BY <1>1, <1>2, <2>1, <2>2, TwoPeriodsFit DEF AgeFits
<1>7. CASE periodicLedUpdateTimerISR
  <2>1. CASE EffectTime = 0
    <3>1. EffectTime' = 0
      BY <1>7, <2>1, IdleInterrupt DEF placeVars, EffectTime
    <3>2. age' \in Nat
      BY <1>1, <1>7 DEF periodicLedUpdateTimerISR, effects
    <3> QED
      BY <3>1, <3>2 DEF AgeFits
  <2>2. CASE EffectTime > 0
    <3>1. Elapsed' = Elapsed - Period
      BY <1>7, InterruptElapses
    <3>2. CASE /\ EffectTime' = EffectTime - UpdatePeriod_ms /\ age' = age /\ asked' = asked
      BY <1>1, <1>2, <2>2, <3>1, <3>2, TwoPeriodsFit DEF AgeFits
    <3> QED
      BY <1>3, <1>7, <2>2, <3>2, InterruptTimes
  <2> QED
    BY <1>1, <2>1, <2>2
<1>8. CASE StoreField
  BY <1>3, <1>4, <1>8, TimeStored
<1> QED
  BY <1>4, <1>5, <1>6, <1>7, <1>8, EffectSteps, TimerSteps

\* What holds of the timer and of an effect's age, between any two steps.
THEOREM AgesFit == Spec => [](TimerGoes /\ AgeFits)
<1>1. Init => AgeFits
  BY DEF Init, AgeFits, EffectTime, Controller
<1>2. LedTypes /\ TimerInv /\ PlaceInv /\ TimerGoes /\ AgeFits /\ [Next]_vars
        /\ LedTypes' /\ TimerInv'
      => (TimerGoes /\ AgeFits)'
  BY TimerGoesStep, AgeFitsStep
<1> QED
  BY <1>1, <1>2, TimerGoesInitially, LedTypesHold, TimerInvHolds, PlaceInvHolds, PTL DEF Spec

LEMMA NoLongerThanAsked ==
  ASSUME LedTypes, TimerInv, TimerGoes, AgeFits, EffectTime > 0
  PROVE  age < asked * 1000 + Period + MaxLatency
<1>1. EffectTime \in Nat \ {0} /\ asked \in Nat /\ age \in Nat
  BY DEF LedTypes, ControllerType, EffectTime, AgeFits
<1>2. age <= (asked - EffectTime) * 1000 + Elapsed
  BY DEF AgeFits
<1>3. Elapsed \in 0..Period + MaxLatency
  BY ElapsedInRange DEF TimerGoes
<1> QED
  BY <1>1, <1>2, <1>3, TwoPeriodsFit

LEMMA NoShorterThanAsked ==
  ASSUME LedTypes, TimerInv, TimerGoes, AgeFits, periodicLedUpdateTimerISR,
         RanOut(controller, controller')
  PROVE  age >= asked * 1000 - Period - MaxLatency
<1>1. EffectTime > 0 /\ timer.raised
  BY DEF RanOut, EffectTime, periodicLedUpdateTimerISR
<1>2. /\ EffectTime \in Nat /\ asked \in Nat /\ age \in Nat
      /\ Period = UpdatePeriod_ms * 1000 /\ UpdatePeriod_ms \in Nat
  BY StatusLedAssumption DEF LedTypes, ControllerType, EffectTime, AgeFits, Period
<1>3. EffectTime <= UpdatePeriod_ms
  BY <1>1, InterruptTimes
<1>4. Elapsed \in 0..Period + MaxLatency /\ Elapsed >= Period
  BY <1>1, ElapsedInRange DEF TimerGoes
<1>5. age >= (asked - EffectTime) * 1000 + Elapsed - Period - MaxLatency
  BY <1>1 DEF AgeFits
<1> QED
  BY <1>2, <1>3, <1>4, <1>5, TwoPeriodsFit

\* A flash and each half of a blink last as long as asked, give or take a period
\* of the updates and the wait of an interrupt: for every duration, period,
\* latency and width of the clock, wherever between two updates an effect is set.
THEOREM EffectsTakeTheirTime == Spec => EffectsAreAccurate
<1> DEFINE Inv == LedTypes /\ TimerInv /\ TimerGoes /\ AgeFits
           InTime == EffectTime > 0 => age < asked * 1000 + Period + MaxLatency
           NotEarly ==
             periodicLedUpdateTimerISR /\ RanOut(controller, controller')
               => age >= asked * 1000 - Period - MaxLatency
<1>1. Inv => InTime
  BY NoLongerThanAsked
<1>2. Inv => NotEarly
  BY NoShorterThanAsked
<1>3. Spec => []Inv
  BY LedTypesHold, TimerInvHolds, AgesFit, PTL
<1>4. InTime' /\ NotEarly
        => [/\ EffectTime' > 0 => age' < asked' * 1000 + Period + MaxLatency
            /\ periodicLedUpdateTimerISR /\ RanOut(controller, controller')
                 => age >= asked * 1000 - Period - MaxLatency]_vars
  OBVIOUS
<1> QED
  BY <1>1, <1>2, <1>3, <1>4, PTL DEF EffectsAreAccurate

=============================================================================
