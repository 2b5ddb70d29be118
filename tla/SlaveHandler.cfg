CONSTANTS
  UINT8_MAX = 12
  GenerateCrc8 <- MCCrc8
  DeviceId = 0
  HandledOperations = {0, 2}
  Deserializes <- MCDeserializes
  HandlerResponses <- MCHandlerResponses
  K_SLAVE_TIMEOUT_MS = 1
  Horizon = 2
  HeaderBytes = {0, 1, 2, 12}
  PayloadBytes = {1}
  MaxPackets = 3
SPECIFICATION HistorySpec
INVARIANTS
  TypeOK
  Framing
  StatisticsAddUp
