SPECIFICATION FairSpec
CONSTANTS
  SeqMod = 4
  MaxWindow = 3
  Sizes <- MCSizes
  LocalWindow = 3
  Proposed = 2
  ServerSegments = 5
  RequesterMax = 0
  Limits <- MCLimits
  Retries = 2
PROPERTIES SendingEnds ImplementsTransfer
CHECK_DEADLOCK FALSE
