CONSTANTS
  UINT8_MAX = 12
  GenerateCrc8 <- MCCrc8
  DeviceId = 0
  HandledOperations = {2}
  RequestDeserializes <- MCDeserializes
  HandlerResponses <- MCHandlerResponses
  ResponseDeserializes <- MCDeserializes
  Commands <- MCCommands
  K_MASTER_TIMEOUT_MS = 4
  K_SLAVE_TIMEOUT_MS = 2
  RequestDelay = 1
  HandlerDelay = 2
  ResponseDelay = 2
  Horizon = 5
  DisturbHeaders = FALSE
  MaxFaults = 0
  MaxCalls = 2
SPECIFICATION Spec
INVARIANT
  ResponseMatchesCall
