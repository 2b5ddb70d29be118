CONSTANTS
  UINT8_MAX = 12
  GenerateCrc8 <- MCCrc8
  DeviceId = 0
  HandledOperations = {2}
  RequestDeserializes <- MCDeserializes
  HandlerResponses <- MCHandlerResponses
  ResponseDeserializes <- MCDeserializes
  Commands <- MCCommands
  K_MASTER_TIMEOUT_MS = 3
  K_SLAVE_TIMEOUT_MS = 1
  RequestDelay = 1
  HandlerDelay = 2
  ResponseDelay = 1
  Horizon = 4
  DisturbHeaders = FALSE
  MaxFaults = 1
  MaxCalls = 3
SPECIFICATION Spec
INVARIANTS
  LineQuiet
  ResponseMatchesCall
  StatisticsAgree
PROPERTIES
  AnswersOnlyWhileWaiting
  ImplementsCommandExchange
