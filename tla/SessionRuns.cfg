CONSTANTS
  Run = {r1, r2}
  Cell = {v1, v2, v3}
  MaxObjects = 3
  Told = {r1}
  Style = {"values", "binding"}
  Device = Device
  NULL = NULL
SPECIFICATION Spec
CHECK_DEADLOCK FALSE
INVARIANT TypeOK
INVARIANT ArgumentsOutliveTheRun
PROPERTY ImplementsOwnership
PROPERTY ImplementsCalls
PROPERTY EndsWhenTold
