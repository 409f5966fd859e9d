SPECIFICATION Spec
CONSTANTS
  r1 = r1
  r2 = r2
  Requests = {r1, r2}
  NoReq = NoReq
  Segmented = {r2}
  Repeatable = {r1}
  Writes = {r2}
  Target <- MCTarget
  Service <- MCServices
  NumIDs = 1
  MaxTx = 1
  RetryCount = 0
  ApduTimeout = 1
  SegTimeout = 1
  MaxSegs = 2
  MaxRounds = 1
  AnswerLife = 1
  MayClose = TRUE
INVARIANTS PublishedOnce LoserIsWoken
