SPECIFICATION FairSpec
CONSTANTS
  Pod = {p1, p2}
  First = p1
  KubvizDurable <- MCKubvizDurable
  Enabled = {"GITMETRICS", "CONTAINERMETRICS", "METRICS"}
  None = None
  Migrations = 0
  MaxFaults = 1
  MaxOutages = 0
PROPERTY
  SomebodyReceives
CHECK_DEADLOCK FALSE
