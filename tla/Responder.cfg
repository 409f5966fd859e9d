SPECIFICATION ResponderFairSpec
CONSTANTS
  Keys = {k1, k2}
  NoKey = NoKey
  Workers = {w1, w2}
  QueueCap = 1
  MaxJobs = 4
INVARIANTS
  OneExecution
PROPERTIES
  KeyReleased
  CloseReturns
