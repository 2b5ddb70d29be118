--------------------------- MODULE PwmSliceDriver ----------------------------
(***************************************************************************)
(* A slice of the PWM hardware: a counter of its own that two outputs      *)
(* share.  The driver keeps nothing but the slice's index; the registers   *)
(* are its state.  The divider is in sixteenths, as the hardware has it,   *)
(* and a duty cycle in parts of FullDuty: 255 steps of a colour times 100  *)
(* of the brightness.                                                      *)
(***************************************************************************)
EXTENDS Integers, FiniteSetsExt

CONSTANT SystemClock   \* clk_sys in Hz

K_WRAP_REGISTER_MAX == 65535
K_CLOCK_DIVIDER_MAX == 256
K_CLOCK_DIVIDER_MIN == 1
FullDuty            == 255 * 100

PwmChannel == {"A", "B"}

mapIndexToPwmChannel(index) == IF index = 1 THEN "B" ELSE "A"

\* pwm_gpio_to_slice_num and pwm_gpio_to_channel.
SliceOfPin(pin)   == (pin \div 2) % 8
ChannelOfPin(pin) == mapIndexToPwmChannel(pin % 2)

\* init and deInit: the default configuration, disabled.
DefaultSlice == [enabled  |-> FALSE,
                 divider  |-> 16 * K_CLOCK_DIVIDER_MIN,
                 top      |-> K_WRAP_REGISTER_MAX,
                 level    |-> [channel \in PwmChannel |-> 0],
                 inverted |-> [channel \in PwmChannel |-> FALSE]]

enable(slice)  == [slice EXCEPT !.enabled = TRUE]
disable(slice) == [slice EXCEPT !.enabled = FALSE]

getChannelDutyCycle(slice, channel) == (slice.level[channel] * FullDuty) \div slice.top

\* Rounded to the nearest level.
LevelFor(top, duty) == (top * Min({Max({duty, 0}), FullDuty}) + FullDuty \div 2) \div FullDuty

setChannelDutyCycle(slice, channel, duty) ==
  [slice EXCEPT !.level[channel] = LevelFor(slice.top, duty)]

setChannelPolarityInverted(slice, channel, inverted) ==
  [slice EXCEPT !.inverted[channel] = inverted]

\* The clock over the highest top, at least 1 and at most 256; the register
\* drops what is less than a sixteenth.
DividerFor(frequency) ==
  IF SystemClock \div K_WRAP_REGISTER_MAX < frequency THEN 16 * K_CLOCK_DIVIDER_MIN
  ELSE Min({(16 * SystemClock) \div (frequency * K_WRAP_REGISTER_MAX),
            16 * K_CLOCK_DIVIDER_MAX})

\* The top the exact divider asks for: one below the highest while it is
\* neither clamped to 1 nor to 256.
TopFor(frequency) ==
  LET divider == DividerFor(frequency)
      top     == IF divider = 16 * K_CLOCK_DIVIDER_MAX
                   THEN SystemClock \div (K_CLOCK_DIVIDER_MAX * frequency) - 1
                 ELSE IF SystemClock \div K_WRAP_REGISTER_MAX < frequency
                   THEN SystemClock \div frequency - 1
                 ELSE K_WRAP_REGISTER_MAX - 1
  IN  Min({top, K_WRAP_REGISTER_MAX})

\* For frequencies up to half the clock; the duty cycles are set again.
setFrequency(slice, asked) ==
  LET frequency == Max({asked, 1})
      retimed   == [slice EXCEPT !.divider = DividerFor(frequency),
                                 !.top     = TopFor(frequency)]
  IN  [retimed EXCEPT !.level = [channel \in PwmChannel |->
         LevelFor(retimed.top, getChannelDutyCycle(slice, channel))]]

\* The register has eight bits before the point: 256 reads back as nothing.
getClockDivider(slice) == slice.divider % (16 * K_CLOCK_DIVIDER_MAX)

\* Of clocks and tops the product of which fits TLC's integers.
getFrequency(slice) ==
  IF getClockDivider(slice) = 0 \/ slice.top = 0 THEN 0
  ELSE ((SystemClock \div (slice.top + 1)) * 16) \div getClockDivider(slice)

=============================================================================
