CONSTANTS
  SystemClock = 125000000
  ClockWrap = 8000
  UpdatePeriod_ms = 2
  MaxLatency = 500
  ClockStep = 500
  Operations = {"base", "flash", "blink", "stop", "brightness"}
  BaseColors <- MCBaseColors
  OverrideColors <- MCOverrideColors
  FlashDurations = {3}
  BlinkDurations = {3}
  Percentages = {100}
  AssertLevels = {1, 3}
  MaxOperations = 3
SPECIFICATION Spec
INVARIANTS
  TypeOK
  AlarmAhead
  NoDrift
  BlinkingGoesOn
  SettledColour
  AssertionShowsRed
PROPERTIES
  EffectsAreAccurate
  AssertionHalts
CHECK_DEADLOCK FALSE
