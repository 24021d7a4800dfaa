SPECIFICATION FairSpec
CONSTANTS
  Row = {r1, r2}
  Run = {j1, j2}
  MaxFaults = 1
INVARIANTS
  TypeOK
  MarkHasACause
PROPERTY
  KeptRowIsExported
