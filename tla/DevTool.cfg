CONSTANTS
  UINT8_MAX = 255
  GenerateCrc8 <- MCCrc8
  Definitions <- MCDefinitions
  TypedNumbers = {300}
  Orders <- MCOrders
  HiddenRows = {{}, {2}}
  OtherWrites <- MCOtherWrites
  Uninitialised <- MCUninitialised
  MaxMishaps = 1
  MaxLoops = 1
  MaxEdits = 1
  MaxPortChanges = 2
SPECIFICATION Spec
INVARIANTS
  TypeOK
  TableMirrorsDevice
  EditsAreAccepted
  TakeNeverFails
  TableIsCompleteOrEmpty
  UndefinedOnlyAfter
PROPERTIES
  SignalsBelongToDevice
  EveryExchangeCounts
  GuiComesBack
CHECK_DEADLOCK FALSE
