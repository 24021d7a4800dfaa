SPECIFICATION FairSpec
CONSTANTS
  Event <- MCEvent
  BufferSize = 1
  MaxPending = 3
  MaxFaults = 1
PROPERTY
  OkMeansStored
