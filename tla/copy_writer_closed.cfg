SPECIFICATION Spec
CHECK_DEADLOCK FALSE
CONSTANTS
  Transfers = {"t1", "t2"}
  Dsts = {"f", "g"}
  Scenarios <- Parallel
  Streams = 2
  QueueCap = 6
  MaxLink = 2
  NoConn = NoConn
PROPERTIES
  OkMeansCopied
