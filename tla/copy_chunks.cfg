SPECIFICATION FairSpec
CHECK_DEADLOCK FALSE
CONSTANTS
  Transfers = {"t1", "t2"}
  Dsts = {"f", "g"}
  Scenarios <- Copies
  Streams = 2
  QueueCap = 2
  MaxLink = 2
  NoConn = NoConn
INVARIANTS
  TypeOK
  ChunksBelong
  WriterOutlivesStream
PROPERTIES
  OkMeansSource
  EveryCopyEnds
