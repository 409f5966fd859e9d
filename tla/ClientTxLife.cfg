SPECIFICATION FairSpec
CONSTANTS
  r1 = r1
  r2 = r2
  Requests = {r1, r2}
  NoReq = NoReq
  Segmented = {r2}
  Repeatable = {r1}
  Writes = {r2}
  Target <- MCTarget
  Service <- MCService
  NumIDs = 1
  MaxTx = 1
  RetryCount = 1
  ApduTimeout = 2
  SegTimeout = 1
  MaxSegs = 3
  MaxRounds = 2
  AnswerLife = 1
  MayClose = FALSE
INVARIANTS IDsExclusive AnswerIsOwn 
PROPERTY EveryRequestEnds
