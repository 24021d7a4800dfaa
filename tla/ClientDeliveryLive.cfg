SPECIFICATION FairSpec
CONSTANTS
  Message <- MCMessageLive
  Consumer <- MCConsumerLive
  None = None
  MaxPublished = 2
  MaxFaults = 2
  MaxRows = 2
PROPERTY
  EverythingSettles
CHECK_DEADLOCK FALSE
