SPECIFICATION Spec
CHECK_DEADLOCK FALSE
CONSTANTS
  Daemons = {"d1"}
  Clients = {"alice"}
  Names = {"web1"}
  Tokens = {"tok", "old"}
  NameOf <- OneName
  TokenOf <- OneToken
  WantName <- EveryoneWants
  WantToken <- HoldsToken
  Unauth = {}
  Exempt = {}
  Kinds = {"execute", "stream", "disconnect"}
  Chunks = 2
  MaxExec = 2
  Supervised = {"d1"}
  MaxBreaks = 1
  MaxDials = 2
  MaxReq = 2
  Breaks = TRUE
  Timeouts = TRUE
  NoConn = NoConn
  NoName = NoName
  NoToken = NoToken
  NoDaemon = NoDaemon
INVARIANTS
  TypeOK
  RegistryExact
PROPERTIES
  StreamFaithful
