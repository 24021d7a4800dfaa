SPECIFICATION FairSpec
CONSTANTS
  Event <- MCEvent
  BufferSize = 1
  MaxPending = 3
  MaxFaults = 2
INVARIANTS
  TypeOK
  OkLossHasACause
  ErrorMeansUnsent
PROPERTIES
  ImplementsContract
  RoomReturns
