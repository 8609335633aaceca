CONSTANTS
  r1 = r1  r2 = r2
  t1 = t1
  b1 = b1  b2 = b2
  s1 = s1  s2 = s2
  Runs = {r1, r2}
  Conns = {t1}
  Packets = {t1}
  Buffers = {b1, b2}
  Stoppers = {s1, s2}
  CtxStoppers = {s2}
  MaxTCPQueries <- NoQueryLimit
  maxTCPQueries = 2
  Overlap = FALSE
  BadReader = FALSE
  GivenLn = GivenLn
  GivenConn = GivenConn
  None = None
SPECIFICATION FairSpec
PROPERTIES
  TCPShutdownReturns
  UDPShutdownReturns
  EveryMessageDisposed
CHECK_DEADLOCK FALSE
