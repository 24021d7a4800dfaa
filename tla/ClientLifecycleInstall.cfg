SPECIFICATION FairSpec
CONSTANTS
  Pod = {p1}
  First = p1
  KubvizDurable <- MCKubvizDurable
  Enabled = {"METRICS"}
  None = None
  Migrations = 2
  MaxFaults = 0
  MaxOutages = 0
PROPERTY
  AgentBringsClientUp
CHECK_DEADLOCK FALSE
