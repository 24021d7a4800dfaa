CONSTANTS
  NoDate <- MCNoDate
  Runs <- MCRuns
  PageSize = 2
  MaxLost = 1
  Resource <- MCResource
  Supported <- MCSupported
  Event <- MCEvent
  Images <- MCImages
  MaxVersion = 2
  MaxCuts = 2
  MaxFails = 1
  MaxDeaths = 1
INIT MCInit
NEXT MCNext
CHECK_DEADLOCK FALSE
INVARIANTS
  MissingHasACause
  NilMeansPublished
  LagIsRight
  DeletedIsDeleted
  DeprecatedIsSeen
  RowsTellTheAnswers
  NothingChecksWhilePublishing
  EventIsPublished
  AddedOncePerProcess
  OnlyExpiredEventsKill
