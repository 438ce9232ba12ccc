SPECIFICATION PartsSpec
CONSTANTS
  Sockets = {s1, s2, s3}
  None = None
  Pages = {p1}
  MaxAttempts = 2
  MaxChanges = 2
  MaxInbox = 2
  Listed <- MCTemplate
  Subscribed = {"sub"}
  TcpLike = {"tcp"}
  UdpLike = {"udp", "sub"}
  MaxSingle = 1
  Workers = 1
  Chunk = 1
  Selections = {c1, c2, c3}
  First = c1
  Watched = c2
  Nothing_ = Nothing_
  MaxPicks = 3
  MaxErrors = 1
INVARIANTS PartsTypeOK SocketOrTimer ScreensTruthful
PROPERTIES PromptRetries KeepsLink PartsSettle
CHECK_DEADLOCK FALSE
