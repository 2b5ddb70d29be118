CONSTANTS
  RingSize = 4
  SizeLimit = 16
  MaxTransmitted = 6
  MaxReceived = 5
  BulkSizes = {1}
  DrainBound = 1
  UnreadBound = 3
SPECIFICATION Spec
INVARIANTS
  TypeOK
  SentInOrder
  ReceivedInOrder
  NoWakeUpLost
PROPERTIES
  EveryByteSent
  CallsReturn
  FlushEmptiesBuffers
