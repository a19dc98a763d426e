SPECIFICATION FairSpec
CONSTANTS
  Tunnels = {t1}
  Scenarios <- Some
  MaxData = 2
  MaxLink = 2
CHECK_DEADLOCK FALSE
INVARIANTS
  TypeOK
  StreamsWhole
PROPERTIES
  InFlightClosed
  HangUpReachesLocal
  HangUpReachesRemote
