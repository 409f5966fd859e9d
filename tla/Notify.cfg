SPECIFICATION DeliverySpec
CONSTANTS
  Capacity = 1
  MaxNotes = 2
  MaxRenewals = 2
  Streams = {1, 2}
  StreamSize = 1
  DispatchSize = 1
  DropOldest = TRUE
  MaxEvents = 4
INVARIANTS EndsWithClosed LossIsAnnounced
PROPERTIES ClosesReturn QuietAfterClose
CHECK_DEADLOCK FALSE
