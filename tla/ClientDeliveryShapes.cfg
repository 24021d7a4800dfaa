SPECIFICATION Spec
CONSTANTS
  Message <- MCShapes
  Consumer <- Consumers
  None = None
  MaxPublished = 2
  MaxFaults = 0
  MaxRows = 2
INVARIANT
  LossNeedsAnother
CHECK_DEADLOCK FALSE
