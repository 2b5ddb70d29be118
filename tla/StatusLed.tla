------------------------------ MODULE StatusLed ------------------------------
(***************************************************************************)
(* The status LED of the firmware: the thread, which boots, uses the LED   *)
(* controller and may fail an assertion, and the interrupt of the LED      *)
(* timer, which updates the controller's effects.  Both write the LED.     *)
(*                                                                         *)
(* The interrupt runs to completion and the thread does not run while it   *)
(* is pending; it may have to wait for another interrupt.  The thread's    *)
(* operations take less than a step of the clock.                          *)
(***************************************************************************)
EXTENDS LedController, TimerDriver, AssertLib

CONSTANTS
  UpdatePeriod_ms,   \* the period the LED timer is configured with
  MaxLatency,        \* microseconds the LED interrupt may have to wait
  ClockStep,         \* microseconds between two values of the clock looked at
  Operations,        \* what the program calls: "base", "flash", "blink", "stop", "brightness"
  BaseColors,        \* colours, durations and percentages it calls it with
  OverrideColors,
  FlashDurations,
  BlinkDurations,
  Percentages,
  AssertLevels,      \* levels the assert library may be built with
  MaxOperations      \* bound of a run: calls

Period == UpdatePeriod_ms * 1000

ASSUME StatusLedAssumption ==
  /\ UpdatePeriod_ms \in Nat \ {0} /\ MaxLatency \in Nat /\ ClockStep \in Nat \ {0}
  /\ MaxLatency < 1000 /\ MaxLatency < Period
  /\ ClockWrap % Period = 0 /\ Period < ClockWrap
  /\ Period % ClockStep = 0

ASSUME CallsAssumption ==
  /\ BaseColors \subseteq Colors /\ OverrideColors \subseteq Colors
  /\ FlashDurations \subseteq Nat \ {0} /\ BlinkDurations \subseteq Nat \ {0}
  /\ Percentages \subseteq Int

VARIABLES
  clock,        \* the lower part of the timer's clock
  timer,        \* led_update_timer
  led,          \* led_driver and its slices
  controller,   \* status_led_controller
  todo,         \* the steps the thread has before it
  pointers,     \* of debug_print
  assertions,   \* the assert library's handler and reaction
  queued,       \* debug messages wait in the UART's ring
  mode,         \* "boots", "runs", "fails" or "halted"
  ticked,       \* the clock has moved on during the operation under way
  first_start,  \* when the timer was first started
  age, asked,   \* microseconds since the effect's time was set, and that time
  astray,       \* the LED's colour was left to chance, or to the override
  operations    \* for the bound

swVars  == <<pointers, assertions, queued, mode>>
effects == <<age, asked>>
vars    == <<clock, timer, led, controller, todo, pointers, assertions, queued, mode,
             ticked, first_start, age, asked, astray, operations>>

-----------------------------------------------------------------------------
(* The thread's steps.                                                     *)
Do(what) == <<{[do |-> what]}>>

initHW ==
  Do("init_led") \o Do("turn_on") \o setBrightness(5) \o Do("start_timer")

initSWLibs == Do("connect_print") \o Do("set_reaction") \o Do("connect_handler")

main == initHW \o initSWLibs \o Do("print") \o setConstantBaseColor(K_YELLOW) \o Do("print")

onAssertionFailed == setConstantBaseColor(K_RED)

Init ==
  /\ clock = 0 /\ timer = Timer
  /\ led = LedDriver /\ controller = Controller
  /\ todo = main
  /\ pointers = DebugPointers /\ assertions = AssertState
  /\ queued = FALSE /\ mode = "boots"
  /\ ticked = FALSE /\ first_start = 0
  /\ age = 0 /\ asked = 0 /\ astray = FALSE /\ operations = 0

\* Steps of the thread that write the LED's colour or what goes with it.
WritesColor(step) ==
  step.do \in {"level", "current", "brightness"} \/
  (step.do = "store" /\ step.field \in {"base_color_", "effect_duration_left_ms_"})

ColorUnderWay == todo # << >> /\ \E step \in Head(todo) : WritesColor(step)

Waits == todo # << >> /\ Head(todo) = {[do |-> "flush"]}

\* The thread does the step; the others of the set are still to be done.
Rest(step) ==
  IF Head(todo) = {step} THEN Tail(todo) ELSE <<Head(todo) \ {step}>> \o Tail(todo)

Goes(rest) ==
  /\ todo' = rest
  /\ ticked' = (ticked /\ rest # << >>)

ThreadDoes(what, step) ==
  /\ ~timer.raised
  /\ todo # << >> /\ step \in Head(todo) /\ step.do = what

Steps == IF todo = << >> THEN {} ELSE Head(todo)

WriteLevel ==
  \E step \in Steps :
    /\ ThreadDoes("level", step)
    /\ led' = setLevel(led, step.part, step.color)
    /\ Goes(Rest(step))
    /\ UNCHANGED <<clock, timer, controller, swVars, first_start, effects, astray, operations>>

WriteCurrentColor ==
  \E step \in Steps :
    /\ ThreadDoes("current", step)
    /\ led' = setCurrentColor(led, step.color)
    /\ Goes(Rest(step))
    /\ UNCHANGED <<clock, timer, controller, swVars, first_start, effects, astray, operations>>

\* An effect that is stopped leaves the LED as it is.
StoreField ==
  \E step \in Steps :
    /\ ThreadDoes("store", step)
    /\ controller' = [controller EXCEPT ![step.field] = step.value]
    /\ IF step.field = "effect_duration_left_ms_"
         THEN /\ asked' = step.value /\ age' = 0
              /\ astray' = (astray \/
                           (step.value = 0 /\ led.current_color_ # controller.base_color_))
         ELSE UNCHANGED <<effects, astray>>
    /\ Goes(Rest(step))
    /\ UNCHANGED <<clock, timer, led, swVars, first_start, operations>>

\* setBrightness goes on with setColorRGB(current_color_).
WriteBrightness ==
  \E step \in Steps :
    /\ ThreadDoes("brightness", step)
    /\ led' = setBrightnessMultiplier(led, step.percentage)
    /\ Goes(SetColorSteps(led.current_color_) \o Tail(todo))
    /\ UNCHANGED <<clock, timer, controller, swVars, first_start, effects, astray, operations>>

BootStep(what) == ThreadDoes(what, [do |-> what]) /\ Goes(Tail(todo))

InitLed ==
  /\ BootStep("init_led")
  /\ led' = initLed(led)
  /\ UNCHANGED <<clock, timer, controller, swVars, first_start, effects, astray, operations>>

TurnOn ==
  /\ BootStep("turn_on")
  /\ led' = turnOn(led)
  /\ UNCHANGED <<clock, timer, controller, swVars, first_start, effects, astray, operations>>

StartTimer ==
  /\ BootStep("start_timer")
  /\ timer' = startTimer(configureInMilliseconds(timer, UpdatePeriod_ms), clock)
  /\ first_start' = clock
  /\ UNCHANGED <<clock, led, controller, swVars, effects, astray, operations>>

ConnectPrint ==
  /\ BootStep("connect_print")
  /\ pointers' = connectPutCharAndFlushFunctions("debugUartPutChar", "DebugUartFlush")
  /\ UNCHANGED <<clock, timer, led, controller, assertions, queued, mode, first_start,
                 effects, astray, operations>>

SetReaction ==
  /\ BootStep("set_reaction")
  /\ assertions' = setAssertionFailedReaction(assertions, call_assertion_handler_and_break_point)
  /\ UNCHANGED <<clock, timer, led, controller, pointers, queued, mode, first_start,
                 effects, astray, operations>>

ConnectHandler ==
  /\ BootStep("connect_handler")
  /\ assertions' = connectAssertionFailedHandler(assertions, "onAssertionFailed")
  /\ UNCHANGED <<clock, timer, led, controller, pointers, queued, mode, first_start,
                 effects, astray, operations>>

PrintMessage ==
  /\ BootStep("print")
  /\ queued' = (queued \/ Prints(pointers))
  /\ UNCHANGED <<clock, timer, led, controller, pointers, assertions, mode, first_start,
                 effects, astray, operations>>

\* Without a flush function it returns at once.
Flush ==
  /\ BootStep("flush")
  /\ Flushes(pointers) => ~queued
  /\ UNCHANGED <<clock, timer, led, controller, swVars, first_start, effects, astray, operations>>

\* The break point: without a debugger the processor locks up, with one it halts.
Halt ==
  /\ BootStep("halt")
  /\ mode' = "halted"
  /\ UNCHANGED <<clock, timer, led, controller, pointers, assertions, queued, first_start,
                 effects, astray, operations>>

EnterMainLoop ==
  /\ mode = "boots" /\ todo = << >>
  /\ mode' = "runs"
  /\ UNCHANGED <<clock, timer, led, controller, todo, pointers, assertions, queued, ticked,
                 first_start, effects, astray, operations>>

-----------------------------------------------------------------------------
(* What the program calls in its main loop, and an assertion that fails.   *)
Call(name, steps) ==
  /\ mode = "runs" /\ todo = << >> /\ ~timer.raised
  /\ name \in Operations /\ operations < MaxOperations
  /\ operations' = operations + 1
  /\ todo' = steps
  /\ UNCHANGED <<clock, timer, led, controller, swVars, ticked, first_start, effects>>

SetConstantBaseColor ==
  /\ \E color \in BaseColors : Call("base", setConstantBaseColor(color))
  /\ astray' = FALSE

FlashOverrideColor ==
  /\ \E color \in OverrideColors, duration_ms \in FlashDurations :
       Call("flash", flashOverrideColor(color, duration_ms))
  /\ UNCHANGED astray

StartOverrideColorBlinking ==
  /\ \E color \in OverrideColors, duration_ms \in BlinkDurations :
       Call("blink", startOverrideColorBlinking(color, duration_ms))
  /\ UNCHANGED astray

StopOverrideColorBlinking == Call("stop", stopOverrideColorBlinking) /\ UNCHANGED astray

SetBrightness ==
  /\ \E percentage \in Percentages : Call("brightness", setBrightness(percentage))
  /\ UNCHANGED astray

\* In the main loop or between two steps of the boot, never in a LED operation.
AssertionFails ==
  /\ mode \in {"boots", "runs"} /\ ~timer.raised
  /\ ~ColorUnderWay /\ (mode = "runs" => todo = << >>)
  /\ mode' = "fails"
  /\ \E level \in AssertLevels :
       todo' = onAssertFail(level, assertions, onAssertionFailed, Do("print"), Do("flush"),
                            Do("halt"))
  /\ astray' = FALSE
  /\ UNCHANGED <<clock, timer, led, controller, pointers, assertions, queued, ticked,
                 first_start, effects, operations>>

-----------------------------------------------------------------------------
(* Time, the interrupt and the debug UART.                                 *)
\* The interrupt cannot wait until the next step of the clock.
Overdue ==
  timer.raised /\ (After(clock, ClockStep) - timer.alarm) % ClockWrap > MaxLatency

Tick ==
  /\ mode # "halted" /\ timer.period > 0 /\ ~Overdue
  /\ todo = << >> \/ Waits \/ ~ticked
  /\ clock' = After(clock, ClockStep)
  /\ timer' = Matched(timer, clock')
  /\ ticked' = (todo # << >> /\ ~Waits)
  /\ age' = IF controller.effect_duration_left_ms_ > 0 THEN age + ClockStep ELSE 0
  /\ UNCHANGED <<led, controller, todo, swVars, first_start, asked, astray, operations>>

Delta == getElapsedMilliseconds(timer, clock)

\* The effect's time ran out with this update: the end, or the next half of a blink.
RanOut(before, after) ==
  /\ before.effect_duration_left_ms_ > 0
  /\ after.effect_duration_left_ms_ = 0 \/ after.blink_state_ # before.blink_state_

periodicLedUpdateTimerISR ==
  /\ mode # "halted" /\ timer.raised
  /\ LET update == periodicUpdate(controller, Delta) IN
     /\ controller' = update.controller
     /\ IF update.color = NoColor THEN UNCHANGED <<led, astray>>
        ELSE led' = setColorRGB(led, update.color) /\ astray' = ColorUnderWay
  /\ IF RanOut(controller, controller')
       THEN /\ age' = 0
            /\ asked' = IF controller.is_blinking_ THEN controller.blink_duration_ms_ ELSE 0
       ELSE UNCHANGED effects
  /\ timer' = restart(timer, clock)
  /\ UNCHANGED <<clock, todo, swVars, ticked, first_start, operations>>

DebugDrained ==
  /\ mode # "halted" /\ queued
  /\ queued' = FALSE
  /\ UNCHANGED <<clock, timer, led, controller, todo, pointers, assertions, mode, ticked,
                 first_start, effects, astray, operations>>

-----------------------------------------------------------------------------
Boot == InitLed \/ TurnOn \/ StartTimer \/ ConnectPrint \/ SetReaction \/ ConnectHandler
          \/ EnterMainLoop

Thread == Boot \/ WriteLevel \/ WriteCurrentColor \/ StoreField \/ WriteBrightness
            \/ PrintMessage \/ Flush \/ Halt

Calls == SetConstantBaseColor \/ FlashOverrideColor \/ StartOverrideColorBlinking
           \/ StopOverrideColorBlinking \/ SetBrightness

Next == Thread \/ Calls \/ AssertionFails \/ Tick \/ periodicLedUpdateTimerISR \/ DebugDrained

\* Strong for the thread: between two interrupts it gets to run.
Fairness ==
  /\ SF_vars(Thread) /\ WF_vars(Tick) /\ WF_vars(periodicLedUpdateTimerISR)
  /\ WF_vars(DebugDrained)

Spec == Init /\ [][Next]_vars /\ Fairness

-----------------------------------------------------------------------------
(* Properties.                                                             *)
EffectTime == controller.effect_duration_left_ms_

\* No output is driven past the top of its slice, and an effect's time left is
\* never more than what was asked for.
TypeOK ==
  /\ clock \in Clock /\ timer.start \in Clock /\ timer.alarm \in Clock
  /\ mode \in {"boots", "runs", "fails", "halted"}
  /\ \A part \in Component, channel \in PwmChannel :
       led.slices[part].level[channel] \in 0..led.slices[part].top
  /\ EffectTime \in 0..asked
  /\ {queued, ticked, astray} \subseteq BOOLEAN

\* The alarm is always ahead of the clock, by one period at most: it is never
\* set in the past, where the clock would reach it only after it wrapped.
AlarmAhead ==
  timer.armed => (timer.alarm - clock) % ClockWrap \in 1..timer.period

\* The interrupt's start times stay on the grid of the first one, however late
\* an interrupt is.
NoDrift == timer.period > 0 => (timer.start - first_start) % timer.period = 0

\* A flash, and each half of a blink, lasts as long as asked, give or take the
\* period of the updates and the wait of an interrupt.
EffectsAreAccurate ==
  [][/\ EffectTime' > 0 => age' < asked' * 1000 + Period + MaxLatency
     /\ periodicLedUpdateTimerISR /\ RanOut(controller, controller')
          => age >= asked * 1000 - Period - MaxLatency]_vars

\* Between the operations a controller that blinks has time left to count down:
\* the interrupt between the stores of startOverrideColorBlinking loses nothing.
BlinkingGoesOn == todo = << >> /\ controller.is_blinking_ => EffectTime > 0

\* With no effect left the LED shows the base colour, unless the interrupt wrote
\* the LED while the thread did, or an effect was stopped while it showed.
SettledColour ==
  todo = << >> /\ mode = "runs" /\ EffectTime = 0 /\ ~astray
    => Shows(led, controller.base_color_)

\* A firmware that halted on an assertion shows red, once the handler is
\* connected, unless it blinks or the interrupt wrote the LED at the same time.
AssertionShowsRed ==
  mode = "halted" /\ assertions.handler # nullptr /\ ~controller.is_blinking_ /\ ~astray
    => Shows(led, K_RED)

\* A failed assertion stops the firmware: onAssertFail is [[noreturn]], and what
\* it waits for, the debug messages in the UART's ring, leaves.
AssertionHalts == mode = "fails" ~> mode = "halted"

\* stopOverrideColorBlinking "stops the blinking effect and restores the base
\* color".
StopRestoresBaseColor ==
  todo = << >> /\ mode = "runs" /\ EffectTime = 0 => Shows(led, controller.base_color_)

=============================================================================
