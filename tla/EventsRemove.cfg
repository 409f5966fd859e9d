SPECIFICATION SpecRemove
CONSTANTS
  Points = {"analog"}
  Kind <- PointKind
  Values <- PointValues
  Initial <- PointInitial
  Config <- PointConfig
  Settings <- PointSettings
  Faults = {0, 7}
  Recipients = {r1}
  Confirmed = {}
  Selected <- AllSelected
  Writers = {w1}
  None = None
  MaxDelay = 1
  MaxTime = 2
  MaxChanges = 3
INVARIANT NoLockCycle
CHECK_DEADLOCK FALSE
