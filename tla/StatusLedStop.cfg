CONSTANTS
  SystemClock = 125000000
  ClockWrap = 8000
  UpdatePeriod_ms = 2
  MaxLatency = 500
  ClockStep = 500
  Operations = {"blink", "stop"}
  BaseColors <- MCBaseColors
  OverrideColors <- MCOverrideColors
  FlashDurations = {3}
  BlinkDurations = {3}
  Percentages = {100}
  AssertLevels = {1}
  MaxOperations = 2
SPECIFICATION Spec
INVARIANTS
  StopRestoresBaseColor
CHECK_DEADLOCK FALSE
