SPECIFICATION FairSpec
CONSTANTS
  Pod = {p1, p2}
  First = p1
  KubvizDurable <- MCKubvizDurable
  Enabled = {"GITMETRICS", "CONTAINERMETRICS", "METRICS"}
  None = None
  Migrations = 2
  MaxFaults = 3
  MaxOutages = 1
INVARIANTS
  TypeOK
  UpMeansSubscribed
  UpMeansMigrated
  ClosesInTime
PROPERTY
  ComesUp
CHECK_DEADLOCK FALSE
