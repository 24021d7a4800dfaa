SPECIFICATION Spec
CONSTANTS
  Message <- MCMessage
  Consumer <- MCConsumer
  None = None
  MaxPublished = 3
  MaxFaults = 2
  MaxRows = 2
INVARIANTS
  TypeOK
  LossHasACause
  DuplicateHasACause
  WholeReports
PROPERTY
  ImplementsContract
CHECK_DEADLOCK FALSE
