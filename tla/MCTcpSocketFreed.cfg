CONSTANTS
  NFd = 3
  NConn = 4
  MayClose = FALSE
SPECIFICATION Spec
INVARIANT FreedWhenUnused
