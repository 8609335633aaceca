CONSTANTS
  r1 = r1  r2 = r2
  c1 = c1  c2 = c2
  s1 = s1  s2 = s2
  Runs = {r1, r2}
  Conns = {c1, c2}
  Stoppers = {s1, s2}
  CtxStoppers = {s2}
  MaxTCPQueries = 0
  maxTCPQueries = 2
  Overlap = FALSE
  GivenLn = GivenLn
  None = None
SPECIFICATION Spec
SYMMETRY Symmetry
INVARIANTS
  TypeOK
  StoppedReadsUnblocked
  ShutdownDrains
  NoDoubleClose
  HijackedNotClosedByServer
  ServeReturnsClean
PROPERTIES
  ImplementsLifecycle
CHECK_DEADLOCK FALSE
