CONSTANTS
  r1 = r1  r2 = r2
  p1 = p1  p2 = p2
  b1 = b1  b2 = b2  b3 = b3
  s1 = s1  s2 = s2
  Runs = {r1, r2}
  Packets = {p1, p2}
  Buffers = {b1, b2, b3}
  Stoppers = {s1, s2}
  CtxStoppers = {s2}
  Overlap = FALSE
  BadReader = TRUE
  GivenConn = GivenConn
  None = None
SPECIFICATION Spec
SYMMETRY Symmetry
INVARIANTS
  StoppedReadUnblocked
  BufferHasOneUser
  ConnOpenWhileServing
  ShutdownDrains
PROPERTIES
  ImplementsLifecycle
CHECK_DEADLOCK FALSE
