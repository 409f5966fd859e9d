SPECIFICATION Spec
CONSTANTS
  None = None
  single = single
  multiple = multiple
  Subs = {s1, s2}
  Keys = {single, multiple}
  Objects = {"a", "b"}
  Writers = {w1}
  Multiple = {multiple}
  Confirmed = {single}
  Finite = {single}
  Refused = {}
  Deletable = {"a"}
  MaxCOV = 1
  NumIds = 1
  Retries = 1
  MaxWrites = 1
  Monitored <- MCMonitored
  Increment <- MCIncrement
  Initial <- MCInitial
  Values <- MCValues
INVARIANTS
  TableIsLive
  NoLostChange
  ClosedIsQuiet
SYMMETRY Symmetry
