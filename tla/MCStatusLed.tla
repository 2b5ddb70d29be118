---------------------------- MODULE MCStatusLed ------------------------------
(***************************************************************************)
(* Instances of StatusLed: a period of two milliseconds looked at in       *)
(* quarters, and what setFrequency makes of some frequencies.              *)
(***************************************************************************)
EXTENDS StatusLed

MCBaseColors     == {K_GREEN}
MCOverrideColors == {K_BLUE}

\* The LED's frequency is kept; one just below what the divider 1 reaches is
\* too high, since the register cuts the divider; below eight the driver reads
\* its own divider as zero.
ASSUME Frequencies ==
  LET Kept(frequency) == getFrequency(setFrequency(DefaultSlice, frequency))
  IN  /\ Kept(K_LED_PWM_FREQUENCY) = 20000
      /\ Kept(1900) = 1907
      /\ Kept(50) = 50
      /\ Kept(7) = 0

\* A duty cycle survives a change of the frequency, to a level.
ASSUME DutyCycleIsKept ==
  \A duty \in {0, 255, 12750, FullDuty} :
    LET slice == setChannelDutyCycle(DefaultSlice, "B", duty)
        after == setFrequency(slice, K_LED_PWM_FREQUENCY)
    IN  after.level["B"] - LevelFor(after.top, duty) \in -1..1

=============================================================================
