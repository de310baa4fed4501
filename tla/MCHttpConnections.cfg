SPECIFICATION HttpSpec
CONSTANTS
  c1 = c1
  c2 = c2
  c3 = c3
  Conns = {c1, c2, c3}
  Limit = 2
  ReadTicks = 1
  HeadPieces = 1
  HeadLimit = 2
  BodyLimit = 1
  Requests <- MCRequests
INVARIANTS ThreadsAreBounded
PROPERTIES OnlyWholeRequestsAct ServiceGoesOn
