SPECIFICATION FairSpec
CONSTANTS
  SeqMod = 4
  MaxWindow = 3
  Sizes <- MCSizes
  LocalWindow = 2
  Proposed = 3
  Limits <- MCLimits
  NakLimit = 2
  MaxAccepts = 2
INVARIANTS AckedIsStored NoFalseViolation NoStall
PROPERTIES SendingEnds ImplementsTransfer
CHECK_DEADLOCK FALSE
