SPECIFICATION FairSpec
CONSTANTS
  PieceLength = 20
  MAXLENGHT = 3
  TIMOUT_RCV = 1
  ReadPieces = 2
  Clients = 1
  Servers <- TwoServers
  Users = {"a"}
  Gateway = "gw"
  MasterOf <- Alone
  Wants <- ReadAndWrite
  Priority <- Below
  RetryComm = 2
  RespTimeout = 0
  LIMIT_CALLS = 5
  RemoteQueue = 1
  LineRoom = 2
  Cuts = {1}
  Punctuality = {TRUE, FALSE}
INVARIANTS
  GivesUpLast
PROPERTIES
  CommandsEnd
