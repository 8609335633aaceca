CONSTANTS
  h1 = h1  h2 = h2
  Labels <- MCLabels
  Lower <- MCLower
  MaxLabels = 2
  MaxPatterns = 3
  Handlers = {h1, h2}
  None = None
SPECIFICATION Spec
INVARIANTS
  MatchIsClosest
  DSLeavesChild
