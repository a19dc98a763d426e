SPECIFICATION FairSpec
CHECK_DEADLOCK FALSE
CONSTANTS
  Daemons = {"d1","d3"}
  Clients = {"alice","carol","dave"}
  Names = {"web1", "web2"}
  Tokens = {"tok", "old"}
  NameOf <- NameEach
  TokenOf <- ThirdDiffers
  WantName <- EveryoneWants
  WantToken <- HoldsToken
  Unauth = {"d1","d3","dave"}
  Exempt = {"web1"}
  Kinds = {"execute", "disconnect"}
  Chunks = 0
  MaxExec = 1
  Supervised = {}
  MaxBreaks = 0
  MaxDials = 1
  MaxReq = 2
  Breaks = FALSE
  Timeouts = FALSE
  NoConn = NoConn
  NoName = NoName
  NoToken = NoToken
  NoDaemon = NoDaemon
INVARIANTS
  CommandAuthorised
PROPERTIES
  EveryRequestAnswered

  ImplementsService
