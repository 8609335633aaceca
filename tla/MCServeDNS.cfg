CONSTANTS
  Ids = {1}
  Opcodes = {"QUERY", "NOTIFY", "UPDATE"}
  OpcodeQuery = "QUERY"
  OpcodeNotify = "NOTIFY"
  Counts <- MCCounts
  Keys = {k1, k2}
  k1 = k1
  k2 = k2
  HasProvider = TRUE
  MaxMessages = 2
  MaxReplies = 3
  NoMAC = NoMAC
  None = None
SPECIFICATION Spec
SYMMETRY MCSymmetry
INVARIANTS
  NoAnswerLoops
  HandledOrRejected
  TsigStatusIsOfRequest
  SignedRepliesChained
CHECK_DEADLOCK FALSE
