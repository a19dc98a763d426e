SPECIFICATION FairSpec
CONSTANTS
  Names = {"a", "b"}
  Ops = {"o1", "o2"}
  Helpers = {"h1", "h2"}
  Scenarios <- Machines
  FirstPid <- PidsAtFirst
  MaxPid = 6
  MaxIno = 7
CHECK_DEADLOCK FALSE
INVARIANTS
  TypeOK
  ExeRunnable
  PidFileExact
  NeverLeftWithout
  SignalledWorkFinishes
PROPERTIES
  EverythingEnds
