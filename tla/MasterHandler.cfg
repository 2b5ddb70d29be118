CONSTANTS
  UINT8_MAX = 12
  GenerateCrc8 <- MCCrc8
  Commands <- MCCommands
  Deserializes <- MCDeserializes
  K_MASTER_TIMEOUT_MS = 1
  Horizon = 2
  HeaderBytes = {0, 1, 2, 12}
  PayloadBytes = {1}
  MaxCalls = 3
SPECIFICATION Spec
INVARIANTS
  Framing
  CallsAccountedFor
PROPERTY
  CallReturns
