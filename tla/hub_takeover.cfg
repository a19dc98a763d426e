SPECIFICATION FairSpec
CHECK_DEADLOCK FALSE
CONSTANTS
  Daemons = {"d1", "d2"}
  Clients = {}
  Names = {"web1"}
  Tokens = {"tok", "old"}
  NameOf <- OneName
  TokenOf <- OneToken
  WantName <- EveryoneWants
  WantToken <- HoldsToken
  Unauth = {}
  Exempt = {}
  Kinds = {"execute"}
  Chunks = 0
  MaxExec = 1
  Supervised = {"d1"}
  MaxBreaks = 1
  MaxDials = 5
  MaxReq = 2
  Breaks = TRUE
  Timeouts = TRUE
  NoConn = NoConn
  NoName = NoName
  NoToken = NoToken
  NoDaemon = NoDaemon
INVARIANTS
  ReplacedExplained
PROPERTIES
  SomeDaemonRouted
