CONSTANTS
  Collection <- MCCollection
  Scheduled <- MCScheduled
  Mode <- MCMode
  Slots <- MCSlots
  MaxHangs = 1
SPECIFICATION Spec
INVARIANTS
  DetectorIsUndisturbed
  GraceKillHasACause
PROPERTY
  PluginsKeepRunning
