----------------------------- MODULE TimerDriver -----------------------------
(***************************************************************************)
(* One alarm of the hardware timer.  The clock counts microseconds in 64   *)
(* bits; an alarm compares the lower 32, ClockWrap values here.  The       *)
(* driver's 64-bit start time is kept in the same width: the time elapsed  *)
(* since then is always below ClockWrap.                                   *)
(***************************************************************************)
EXTENDS Integers

CONSTANT ClockWrap   \* values of the lower part of the clock

ASSUME ClockWrapAssumption == ClockWrap \in Nat \ {0}

Clock == 0..ClockWrap - 1

\* The driver and its alarm: armed until the clock matches it, then raised.
Timer == [period |-> 0, start |-> 0, alarm |-> 0, armed |-> FALSE, raised |-> FALSE]

After(time, period) == (time + period) % ClockWrap

configureInMicroseconds(timer, period) == [timer EXCEPT !.period = period]
configureInMilliseconds(timer, period) == configureInMicroseconds(timer, period * 1000)

\* Clears the interrupt, sets the alarm one period after the start time.
SetAlarm(timer, start) ==
  [timer EXCEPT !.start  = start,
                !.alarm  = After(start, timer.period),
                !.armed  = TRUE,
                !.raised = FALSE]

startTimer(timer, now) == SetAlarm(timer, now)

stopTimer(timer) == [timer EXCEPT !.armed = FALSE]

\* Mutation: the period starts now.
restartNow(timer, now) == SetAlarm(timer, now)

\* Mutation: the start time is not moved forward.
restartSamePeriod(timer, now) == SetAlarm(timer, timer.start)

\* One period after the last start time, not after now.
restart(timer, now) == SetAlarm(timer, After(timer.start, timer.period))

isRunning(timer) == timer.armed

getElapsedMicroseconds(timer, now) == (now - timer.start) % ClockWrap
getElapsedMilliseconds(timer, now) == getElapsedMicroseconds(timer, now) \div 1000

\* The clock reaches now.
Matched(timer, now) ==
  IF timer.armed /\ timer.alarm = now
  THEN [timer EXCEPT !.armed = FALSE, !.raised = TRUE] ELSE timer

=============================================================================
