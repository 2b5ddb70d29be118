------------------------- MODULE AnalogRgbLedDriver --------------------------
(***************************************************************************)
(* A RGB LED on three PWM outputs.  What the LED shows is the levels of    *)
(* its three outputs; setColorRGB writes them one after the other, so a    *)
(* caller that can be interrupted is given the steps, SetColorSteps.       *)
(***************************************************************************)
EXTENDS PwmSliceDriver, Sequences

\* The pins of hw_mappings.h, and the slices and channels behind them.
Pins == [red |-> 15, green |-> 9, blue |-> 13]

Component == DOMAIN Pins

Channel == [part \in Component |-> ChannelOfPin(Pins[part])]

K_LED_PWM_FREQUENCY == 20000

ASSUME LedFrequencyAssumption == SystemClock \in Nat /\ SystemClock >= 2 * K_LED_PWM_FREQUENCY

RGB(red, green, blue) == [red |-> red, green |-> green, blue |-> blue]
Colors                == [red : 0..255, green : 0..255, blue : 0..255]

K_RED      == RGB(255, 0, 0)
K_YELLOW   == RGB(255, 255, 0)
K_GREEN    == RGB(0, 255, 0)
K_BLUE     == RGB(0, 0, 255)
K_DISABLED == RGB(0, 0, 0)

\* Before init; the brightness is a percentage.
LedDriver ==
  [slices         |-> [part \in Component |-> DefaultSlice],
   brightness_    |-> 100,
   current_color_ |-> K_DISABLED]

OnSlices(led, Change(_)) == [led EXCEPT !.slices = [part \in Component |-> Change(@[part])]]

\* The status LED has a common cathode, so nothing is inverted.
initLed(led) ==
  OnSlices(led, LAMBDA slice : setFrequency(DefaultSlice, K_LED_PWM_FREQUENCY))

deInitLed(led) == OnSlices(led, LAMBDA slice : DefaultSlice)
turnOn(led)    == OnSlices(led, enable)
turnOff(led)   == OnSlices(led, disable)

Duty(led, part, color) == color[part] * led.brightness_

\* The green slice is set on the channel of the blue one; all three are B.
ChannelWritten == [Channel EXCEPT !.green = Channel.blue]

setLevel(led, part, color) ==
  [led EXCEPT !.slices[part] =
     setChannelDutyCycle(@, ChannelWritten[part], Duty(led, part, color))]

setCurrentColor(led, color) == [led EXCEPT !.current_color_ = color]

\* setColorRGB without an interruption.
setColorRGB(led, color) ==
  setCurrentColor(setLevel(setLevel(setLevel(led, "red", color), "green", color),
                           "blue", color), color)

\* setBrightness up to its call of setColorRGB(current_color_).
setBrightnessMultiplier(led, percentage) ==
  [led EXCEPT !.brightness_ = Min({Max({percentage, 0}), 100})]

\* The LED's three outputs show this colour at the brightness set.
Shows(led, color) ==
  \A part \in Component :
    /\ led.slices[part].enabled
    /\ led.slices[part].level[Channel[part]]
         = LevelFor(led.slices[part].top, Duty(led, part, color))

=============================================================================
