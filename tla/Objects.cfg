SPECIFICATION Spec
CONSTANTS
  None = None
  r1 = r1  r2 = r2  r3 = r3  w1 = w1  w2 = w2  t1 = t1  t2 = t2
  a = a  b = b  wrong = wrong  range = range  fault = fault
  Requests <- mcRequests
  Creatable = "av"
  Fixed = "ai"
  Instances = {0, 1}
  Names <- mcNames
  MaxObjects = 2
  Asked <- mcAsked
  Writers <- mcWriters
  Values <- mcValues
  FaultValues <- mcFaults
  WrongKind = wrong
  OutOfRange = range
  Priorities = {8, 16}
  MaxRequests = 2
  Clock <- mcClock
  Targets <- mcTargets
  Accepts <- mcAccepts
  Weeklies <- mcWeeklies
  Exceptions <- mcExceptions
  ShortLists <- mcShortLists
  DateLists <- mcDateLists
  Effectives <- mcEffectives
  Default = a
  Scheduled <- mcScheduled
  MaxWrites = 2
  BufferSize = 3
  MaxRecords = 4
  LogInterval = 1
  MaxTime = 2
  PageCounts = {1, 2}
  Fit = 2
  MaxItems = 5
  MaxPages = 4
  Contents <- mcContents
  Payloads <- mcPayloads
  Starts <- mcMinusOne
  Chunks = {1, 2, 5}
  MaxSize = 6
  MaxTotals = {2, 9}
  MaxPosition = 7
  Specs <- mcSpecs
  BatchSizes = {1, 4}
  RequestFits = {1, 3, 9}
  ReplyFits = {0, 1, 2, 9}
  MaxBatches = 6
INVARIANTS
  TableConsistent
  ChangeIsSeen
  ScheduleFollows
  
  FileIsCopied
  
CHECK_DEADLOCK FALSE
