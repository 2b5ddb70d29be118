---------------------------- MODULE LedController ----------------------------
(***************************************************************************)
(* The LED controller: a base colour and, over it, a flash or a blinking   *)
(* in an override colour.  periodicUpdate is what the timer's interrupt    *)
(* calls; the other operations are the thread's, and are the steps the     *)
(* interrupt can come between: a colour is written to the LED output by    *)
(* output, and assignments with nothing between them that the compiler     *)
(* cannot see through are made in any order.                               *)
(***************************************************************************)
EXTENDS AnalogRgbLedDriver

Controller == [base_color_              |-> K_DISABLED,
               override_color_          |-> K_DISABLED,
               is_blinking_             |-> FALSE,
               blink_duration_ms_       |-> 0,
               effect_duration_left_ms_ |-> 0,
               blink_state_             |-> FALSE]

-----------------------------------------------------------------------------
(* periodicUpdate, uninterrupted: the controller after it, and the colour  *)
(* it gives the LED, if any.                                               *)
NoColor == [none |-> TRUE]

Updated(controller, color) == [controller |-> controller, color |-> color]

EffectEnds(controller, delta) ==
  controller.effect_duration_left_ms_ > 0 /\ delta >= controller.effect_duration_left_ms_

ToggledColor(c) == IF c.blink_state_ THEN c.base_color_ ELSE c.override_color_

\* Mutation: the time left is not limited to what is left, so it wraps.
updateUnlimited(c, delta) ==
  IF c.effect_duration_left_ms_ = 0 THEN Updated(c, NoColor)
  ELSE IF delta # c.effect_duration_left_ms_
  THEN Updated([c EXCEPT !.effect_duration_left_ms_ = (@ - delta) % 65536], NoColor)
  ELSE Updated([c EXCEPT !.effect_duration_left_ms_ = 0], c.base_color_)

\* Mutation: the updates are counted, not the milliseconds.
updateCountsCalls(c, delta) ==
  IF c.effect_duration_left_ms_ = 0 THEN Updated(c, NoColor)
  ELSE IF c.effect_duration_left_ms_ > 1
  THEN Updated([c EXCEPT !.effect_duration_left_ms_ = @ - 1], NoColor)
  ELSE IF c.is_blinking_
  THEN Updated([c EXCEPT !.effect_duration_left_ms_ = c.blink_duration_ms_,
                         !.blink_state_             = ~@], ToggledColor(c))
  ELSE Updated([c EXCEPT !.effect_duration_left_ms_ = 0], c.base_color_)

\* Mutation: the duration is not set again for the next half of the blink.
updateBlinksOnce(c, delta) ==
  IF ~EffectEnds(c, delta)
  THEN Updated([c EXCEPT !.effect_duration_left_ms_ = IF @ = 0 THEN 0 ELSE @ - delta], NoColor)
  ELSE Updated([c EXCEPT !.effect_duration_left_ms_ = 0,
                         !.blink_state_ = IF c.is_blinking_ THEN ~@ ELSE @],
               IF c.is_blinking_ THEN ToggledColor(c) ELSE c.base_color_)

periodicUpdate(c, delta) ==
  IF c.effect_duration_left_ms_ = 0 THEN Updated(c, NoColor)
  ELSE IF ~EffectEnds(c, delta)
  THEN Updated([c EXCEPT !.effect_duration_left_ms_ = @ - delta], NoColor)
  ELSE IF c.is_blinking_
  THEN Updated([c EXCEPT !.effect_duration_left_ms_ = c.blink_duration_ms_,
                         !.blink_state_             = ~@], ToggledColor(c))
  ELSE Updated([c EXCEPT !.effect_duration_left_ms_ = 0], c.base_color_)

-----------------------------------------------------------------------------
(* The thread's operations: sequences of sets of steps, the steps of a set *)
(* in any order.                                                           *)
Store(field, value) == [do |-> "store", field |-> field, value |-> value]

SetColorSteps(color) ==
  <<{[do |-> "level", part |-> "red", color |-> color]},
    {[do |-> "level", part |-> "green", color |-> color]},
    {[do |-> "level", part |-> "blue", color |-> color]},
    {[do |-> "current", color |-> color]}>>

\* Mutation: the base colour is not remembered.
setColorOnly(color) == SetColorSteps(color)

setConstantBaseColor(color) == SetColorSteps(color) \o <<{Store("base_color_", color)}>>

flashOverrideColor(color, duration_ms) ==
  SetColorSteps(color) \o <<{Store("effect_duration_left_ms_", duration_ms)}>>

startOverrideColorBlinking(color, symmetrical_duration_ms) ==
  <<{Store("override_color_", color),
     Store("effect_duration_left_ms_", symmetrical_duration_ms),
     Store("blink_duration_ms_", symmetrical_duration_ms),
     Store("is_blinking_", TRUE)}>>

stopOverrideColorBlinking ==
  <<{Store("is_blinking_", FALSE), Store("effect_duration_left_ms_", 0)}>>

setBrightness(percentage) == <<{[do |-> "brightness", percentage |-> percentage]}>>

=============================================================================
