SPECIFICATION Spec
CONSTANTS
  PieceLength = 20
  MAXLENGHT = 4
  TIMOUT_RCV = 2
  ReadPieces = 3
  Clients = 2
  Servers <- TwoServers
  Users = {"a", "b"}
  Gateway = "gw"
  MasterOf <- OneEach
  Wants <- TwoReads
  Priority <- AboveAndBelow
  RetryComm = 2
  RespTimeout = 1
  LIMIT_CALLS = 5
  RemoteQueue = 2
  LineRoom = 4
  Cuts = {0, 1}
  Punctuality = {TRUE}
INVARIANTS
  GatewayTypeOK
  BusyHeld
  SleeperRemembered
  ZeroMeansAnswered
PROPERTIES
  AnswerIsForRequest
