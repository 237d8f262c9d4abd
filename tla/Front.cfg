SPECIFICATION FrontSpec
CONSTANTS
  r1 = r1
  r2 = r2
  b1 = b1
  b2 = b2
  Half = 32768
  Requests = {r1, r2}
  Depth = 2
  Raised <- MCRaised
  Metered <- MCMetered
  Buffers = {b1, b2}
SYMMETRY Symmetry
INVARIANTS FrontInv AnswersTruly CountsAnswers
CHECK_DEADLOCK FALSE
