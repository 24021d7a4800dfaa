SPECIFICATION FairSpec
CONSTANTS
  Message <- MCMessage
  Consumer <- MCConsumer
  None = None
  MaxPublished = 3
  MaxFaults = 0
  MaxRows = 2
PROPERTY
  EveryEventStored
CHECK_DEADLOCK FALSE
