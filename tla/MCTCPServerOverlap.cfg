CONSTANTS
  r1 = r1  r2 = r2
  c1 = c1
  s1 = s1  s2 = s2
  Runs = {r1, r2}
  Conns = {c1}
  Stoppers = {s1, s2}
  CtxStoppers = {s2}
  MaxTCPQueries <- NoQueryLimit
  maxTCPQueries = 2
  Overlap = TRUE
  GivenLn = GivenLn
  None = None
SPECIFICATION Spec
INVARIANT ShutdownDrains
CHECK_DEADLOCK FALSE
